---- MODULE Spec2Model ----
(***************************************************************************)
(* Execution lifecycle of the WasmEdge executor: runtime construction,     *)
(* new_instance, WasmEdgeInstance::call under the two strategies           *)
(* (FastInstanceReuse, RecreateInstance), the dispatch in                  *)
(* InstanceWrapper::call and the host-function bridge of prepare_imports.  *)
(*                                                                         *)
(* The repository holds two trees of the executor:                         *)
(*   "substrate": src/substrate/client/executor/wasmedge/src               *)
(*   "client":    src/client/executor/wasmedge/src                         *)
(* The variable tree says which one a behaviour runs.                      *)
(*                                                                         *)
(* Linear memory is a sequence of cells; a page is WasmPageSize cells and  *)
(* a 32-bit half of the packed result is a number below HalfModulus.       *)
(***************************************************************************)
EXTENDS Integers, Sequences, FiniteSets, TLC

\* ------------------------------------------------------------------ bounds
WasmPageSize == 4
MaxPages == 2
MaxGuestSteps == 2
HalfModulus == 16

\* ------------------------------------------------------------- vocabulary
Trees == {"substrate", "client"}
NoMessage == "None"

Max(a, b) == IF a >= b THEN a ELSE b

RECURSIVE SumSeq(_)
SumSeq(s) == IF s = <<>> THEN 0 ELSE Head(s) + SumSeq(Tail(s))

Zeros(n) == [i \in 1 .. n |-> 0]

\* ---------------------------------------------------------------- results
Ok(bytes) ==
    [tag |-> "Ok", error |-> "", message |-> "", index |-> 0, output |-> bytes]

Err(kind, msg, idx) ==
    [tag |-> "Err", error |-> kind, message |-> msg, index |-> idx, output |-> <<>>]

NoResult ==
    [tag |-> "None", error |-> "", message |-> "", index |-> 0, output |-> <<>>]

\* --------------------------------------------------- the module under test
\* The blob given to create_runtime: one page of memory, one data segment,
\* the immutable i32 global __heap_base and one internal mutable global.
InitialPages == 1
HeapBase == 2
DataSegments == << [offset |-> 0, contents |-> <<1, 2>>] >>
MutableGlobalNames == {"exported_internal_global_0"}
InitialGlobals == [g \in MutableGlobalNames |-> 1]

\* Value types of the engine.
I32 == "I32"
I64 == "I64"
F32 == "F32"
F64 == "F64"

\* The 32-bit parameter type and the 64-bit result type the entry-point checks
\* of each tree compare with.
EntryParamTy(t) == IF t = "substrate" THEN I32 ELSE F32
EntryResultTy(t) == IF t = "substrate" THEN I64 ELSE F64

NoFunc == [tag |-> "None", params |-> <<>>, returns |-> <<>>, body |-> ""]
Func(p, r, b) == [tag |-> "Some", params |-> p, returns |-> r, body |-> b]

\* A module declares its entry points over integers or over floats.
Abis == {"int", "float"}
ModParamTy(abi) == IF abi = "int" THEN I32 ELSE F32
ModResultTy(abi) == IF abi = "int" THEN I64 ELSE F64

\* The exports of the module.
ExportNames == {"pure", "any", "call_get_value", "bad_params", "bad_result", "missing"}

ExportFunc(abi, name) ==
    LET p == ModParamTy(abi)
        r == ModResultTy(abi)
    IN CASE name = "pure" -> Func(<<p, p>>, <<r>>, "pure")
         [] name = "any" -> Func(<<p, p>>, <<r>>, "any")
         [] name = "call_get_value" -> Func(<<p, p>>, <<r>>, "call_get_value")
         [] name = "bad_params" -> Func(<<p>>, <<r>>, "any")
         [] name = "bad_result" -> Func(<<p, p>>, <<p>>, "any")
         [] OTHER -> NoFunc

\* The indirect function table: slot 0 is null, slot 1 a two-parameter
\* function, slot 2 a function of another signature, slot 3 a dispatcher.
TableSize == 4

TableSlot(abi, idx) ==
    LET p == ModParamTy(abi)
        r == ModResultTy(abi)
    IN CASE idx = 1 -> Func(<<p, p>>, <<r>>, "pure")
         [] idx = 2 -> Func(<<p, p>>, <<p, p>>, "pure")
         [] idx = 3 -> Func(<<p, p, p>>, <<r>>, "pure")
         [] OTHER -> NoFunc

\* InvokeMethod
Export(name) == [kind |-> "Export", name |-> name, index |-> 0, func |-> 0]
Table(idx) == [kind |-> "Table", name |-> "", index |-> idx, func |-> 0]
TableWithWrapper(d, f) ==
    [kind |-> "TableWithWrapper", name |-> "", index |-> d, func |-> f]

Methods ==
    {Export(n) : n \in ExportNames}
        \cup {Table(i) : i \in {0, 1, 2, TableSize}}
        \cup {TableWithWrapper(i, 0) : i \in {0, 1, 3, TableSize}}

\* Input payloads of call.
Inputs == {<<2>>, <<1, 2, 2>>}

\* ------------------------------------------------------- memory access
\* The width of usize, as a modulus.
UsizeModulus == 16

\* A faulty variant of checked_range: the end of the range is computed with
\* a wrapping addition.
checked_range_wrapping(offset, len, max) == (offset + len) % UsizeModulus <= max

\* sc_executor_common::util::checked_range(offset, len, max): the range is
\* valid when offset + len does not overflow and does not pass max.
checked_range(offset, len, max) == offset + len <= max

\* util::memory_slice / memory_slice_mut: the byte view of a Memory.
memory_slice(mem) == mem

\* util::write_memory_from: [ok, mem].
write_memory_from(mem, address, data) ==
    IF checked_range(address, Len(data), Len(mem))
    THEN [ok |-> TRUE,
          mem |-> [i \in 1 .. Len(mem) |->
                      IF i - 1 >= address /\ i - 1 < address + Len(data)
                      THEN data[i - address]
                      ELSE mem[i]]]
    ELSE [ok |-> FALSE, mem |-> mem]

\* util::read_memory_into: [ok, bytes].
read_memory_into(mem, address, len) ==
    IF checked_range(address, len, Len(mem))
    THEN [ok |-> TRUE, bytes |-> [i \in 1 .. len |-> mem[address + i]]]
    ELSE [ok |-> FALSE, bytes |-> <<>>]

\* A faulty variant of decommit: the pages are left as they are.
decommit_skipped(mem) == mem

\* InstanceWrapper::decommit: nothing on an empty memory; otherwise the
\* pages are released (madvise / mmap) or filled with zero, and read zero.
decommit(mem) == IF Len(mem) = 0 THEN mem ELSE Zeros(Len(mem))

\* ------------------------------------------------------------ allocator
\* FreeingBumpHeapAllocator: a bump cursor seeded at heap_base and the
\* blocks handed out and freed.
FreeingBumpHeapAllocatorNew(heap_base) ==
    [bumper |-> heap_base, live |-> {}, free |-> {}]

SizeClass(size) == Max(size, 1)

MinPtr(blocks) == CHOOSE p \in {b.ptr : b \in blocks} :
                      \A q \in {b.ptr : b \in blocks} : p <= q

\* allocate(memory, size): [ok, ptr, allocator].
allocate(a, mem, size) ==
    LET sz == SizeClass(size)
        cands == {b \in a.free : b.size = sz}
    IN IF cands # {}
       THEN LET p == MinPtr(cands)
                blk == [ptr |-> p, size |-> sz]
            IN [ok |-> TRUE, ptr |-> p,
                allocator |-> [a EXCEPT !.free = @ \ {blk}, !.live = @ \cup {blk}]]
       ELSE IF a.bumper + sz <= Len(mem)
            THEN [ok |-> TRUE, ptr |-> a.bumper,
                  allocator |-> [a EXCEPT !.bumper = @ + sz,
                                          !.live = @ \cup {[ptr |-> a.bumper, size |-> sz]}]]
            ELSE [ok |-> FALSE, ptr |-> 0, allocator |-> a]

\* deallocate(memory, ptr): [ok, allocator].
deallocate(a, mem, ptr) ==
    LET blks == {b \in a.live : b.ptr = ptr}
    IN IF blks # {}
       THEN [ok |-> TRUE,
             allocator |-> [a EXCEPT !.live = @ \ blks, !.free = @ \cup blks]]
       ELSE [ok |-> FALSE, allocator |-> a]

\* ------------------------------------------------------- runtime blob
RawBlob == [exposed |-> FALSE, data |-> DataSegments, pages |-> InitialPages]

\* prepare_blob_for_compilation: expose_mutable_globals under
\* fast_instance_reuse.
prepare_blob_for_compilation(blob, fast_instance_reuse) ==
    [blob EXCEPT !.exposed = fast_instance_reuse]

\* ExposedMutableGlobalsSet::collect: the globals that expose_mutable_globals
\* exported from the blob it is given.
ExposedMutableGlobalsSet_collect(blob) ==
    IF blob.exposed THEN MutableGlobalNames ELSE {}

\* DataSegmentsSnapshot::take
DataSegmentsSnapshot_take(blob) == blob.data

\* do_create_runtime / create_runtime: the snapshot data of the runtime.
\* The substrate tree snapshots the blob prepared for compilation, the
\* client tree the blob as given.
SnapshotSource(t, blob, fast_instance_reuse) ==
    IF t = "substrate"
    THEN prepare_blob_for_compilation(blob, fast_instance_reuse)
    ELSE blob

snapshot_data_of(t, blob, fast_instance_reuse) ==
    IF fast_instance_reuse
    THEN LET b == SnapshotSource(t, blob, fast_instance_reuse)
         IN [tag |-> "Some",
             mutable_globals |-> ExposedMutableGlobalsSet_collect(b),
             data_segments_snapshot |-> DataSegmentsSnapshot_take(b)]
    ELSE [tag |-> "None", mutable_globals |-> {}, data_segments_snapshot |-> <<>>]

\* ---------------------------------------------------- engine capability
\* DataSegmentsSnapshot::apply: every segment is written in order, the
\* first failing write ends it.
RECURSIVE apply_segments(_, _)
apply_segments(mem, segs) ==
    IF segs = <<>>
    THEN [ok |-> TRUE, mem |-> mem]
    ELSE LET w == write_memory_from(mem, Head(segs).offset, Head(segs).contents)
         IN IF w.ok THEN apply_segments(w.mem, Tail(segs)) ELSE w

\* Instantiation of the compiled module: zeroed pages with the data segments
\* written, globals at their initial values.
FreshMemory == apply_segments(Zeros(InitialPages * WasmPageSize), DataSegments).mem
FreshGlobals == InitialGlobals

\* A faulty variant of DataSegmentsSnapshot_apply: nothing is written.
data_segments_not_applied(snap, mem) == [ok |-> TRUE, mem |-> mem]

DataSegmentsSnapshot_apply(snap, mem) == apply_segments(mem, snap)

\* A faulty variant of GlobalsSnapshot_apply: the globals keep their values.
globals_not_applied(snap, glob) == glob

\* GlobalsSnapshot::take and GlobalsSnapshot::apply
GlobalsSnapshot_take(names, glob) == [g \in names |-> glob[g]]

GlobalsSnapshot_apply(snap, glob) ==
    [g \in DOMAIN glob |-> IF g \in DOMAIN snap THEN snap[g] ELSE glob[g]]

\* ------------------------------------------------------- packed result
\* sp_runtime_interface::unpack_ptr_and_len: the low half is the pointer,
\* the high half the length.
pack_ptr_and_len(ptr, len) == len * HalfModulus + ptr
unpack_ptr_and_len(val) ==
    [ptr |-> val % HalfModulus, len |-> (val \div HalfModulus) % HalfModulus]

\* ---------------------------------------------------------- dispatch
\* check_signature1 / check_signature2: two 32-bit parameters and one 64-bit
\* result; check_signature3: three parameters.
\* A faulty variant of check_signature1: the results are not compared.
check_params_only(t, f) == f.params = <<EntryParamTy(t), EntryParamTy(t)>>

check_signature1(t, f) ==
    f.params = <<EntryParamTy(t), EntryParamTy(t)>> /\ f.returns = <<EntryResultTy(t)>>

check_signature2(t, f) ==
    f.params = <<EntryParamTy(t), EntryParamTy(t)>> /\ f.returns = <<EntryResultTy(t)>>

check_signature3(t, f) ==
    /\ f.params = <<EntryParamTy(t), EntryParamTy(t), EntryParamTy(t)>>
    /\ f.returns = <<EntryResultTy(t)>>

InvalidSignature == Err("Other", "Invalid signature for direct entry point", 0)

Target(f) == [ok |-> TRUE, func |-> f, err |-> NoResult]
NoTarget(e) == [ok |-> FALSE, func |-> NoFunc, err |-> e]

\* The part of InstanceWrapper::call that finds the function to call:
\* [ok, func, err].
resolve_export(t, abi, name) ==
    LET f == ExportFunc(abi, name)
    IN IF f.tag = "None" THEN NoTarget(Err("Other", "function is not found", 0))
       ELSE IF ~check_signature1(t, f) THEN NoTarget(InvalidSignature)
       ELSE Target(f)

\* A faulty variant of resolve_table: the slot is used as it is found.
resolve_table_unchecked(t, abi, has_table, idx) == Target(TableSlot(abi, idx))

resolve_table(t, abi, has_table, idx) ==
    IF ~has_table THEN NoTarget(Err("NoTable", "", 0))
    ELSE IF idx >= TableSize THEN NoTarget(Err("NoTableEntryWithIndex", "", idx))
    ELSE LET f == TableSlot(abi, idx)
         IN IF f.tag = "None" THEN NoTarget(Err("FunctionRefIsNull", "", idx))
            ELSE IF ~check_signature2(t, f) THEN NoTarget(InvalidSignature)
            ELSE Target(f)

resolve_table_with_wrapper(t, abi, has_table, dispatcher_ref) ==
    IF ~has_table THEN NoTarget(Err("NoTable", "", 0))
    ELSE IF dispatcher_ref >= TableSize
         THEN NoTarget(Err("NoTableEntryWithIndex", "", dispatcher_ref))
    ELSE LET f == TableSlot(abi, dispatcher_ref)
         IN IF f.tag = "None" THEN NoTarget(Err("FunctionRefIsNull", "", dispatcher_ref))
            ELSE IF ~check_signature3(t, f) THEN NoTarget(InvalidSignature)
            ELSE Target(f)

resolve(t, abi, has_table, method) ==
    CASE method.kind = "Export" -> resolve_export(t, abi, method.name)
      [] method.kind = "Table" -> resolve_table(t, abi, has_table, method.index)
      [] OTHER -> resolve_table_with_wrapper(t, abi, has_table, method.index)

\* A faulty variant of trap_to_error: the recorded message is not looked at.
trap_only(panic_message, trap) == Err("AbortedDueToTrap", trap, 0)

\* The map_err of InstanceWrapper::call: a recorded panic message comes
\* before the trap.
trap_to_error(panic_message, trap) ==
    IF panic_message # NoMessage
    THEN Err("AbortedDueToPanic", panic_message, 0)
    ELSE Err("AbortedDueToTrap", trap, 0)

\* ------------------------------------------------- host function bridge
MissingHostFunc == 1
AllocateMemoryErr == 2
SpawnedTaskErr == 3
Others == 4

\* The payload of an abort inside a host function: a String or not, and
\* which of the two texts the bridge looks for it contains.
Payloads ==
    { [is_string |-> FALSE, spawned |-> FALSE, alloc |-> FALSE],
      [is_string |-> TRUE, spawned |-> FALSE, alloc |-> FALSE],
      [is_string |-> TRUE, spawned |-> TRUE, alloc |-> FALSE],
      [is_string |-> TRUE, spawned |-> FALSE, alloc |-> TRUE],
      [is_string |-> TRUE, spawned |-> TRUE, alloc |-> TRUE] }

AllocPanic == [is_string |-> TRUE, spawned |-> FALSE, alloc |-> TRUE]
PlainPanic == [is_string |-> TRUE, spawned |-> FALSE, alloc |-> FALSE]

\* function_static, the Err(e) arm of unwind_result: the failure code for a
\* caught abort.
unwind_code(payload) ==
    IF ~payload.is_string THEN Others
    ELSE IF payload.spawned THEN SpawnedTaskErr
    ELSE IF payload.alloc THEN AllocateMemoryErr
    ELSE Others

\* The text of the trap the engine raises for HostFuncError::User(code).
HostFuncErrorText(code) ==
    CASE code = MissingHostFunc -> "HostFuncError::User(1)"
      [] code = AllocateMemoryErr -> "HostFuncError::User(2)"
      [] code = SpawnedTaskErr -> "HostFuncError::User(3)"
      [] OTHER -> "HostFuncError::User(4)"

\* The value the host function get_value returns to the guest.
get_value == <<42>>

PanicMessages == {"panic A", "panic B"}
TrapMessages == {"unreachable"}

\* A faulty variant of set_host_state: the slot keeps what it holds.
host_state_kept(current, host_state) == current

\* InstanceWrapper::set_host_state
set_host_state(current, host_state) == host_state

\* Bytes of a sandboxed memory page, bytes of the outer linear memory, the
\* number of nested instances and of sandboxed memories one behaviour creates
\* and the number of sandbox host calls it makes.
SandboxPageSize == 3
OuterSize == 4
MaxSandboxObjects == 1
MaxSandboxCalls == 3

\* sandbox::Store::new: no nested instance, no sandboxed memory.
SandboxStoreNew == [instances |-> <<>>, memories |-> <<>>]

\* A slot of the store: None once torn down.
LiveMemory(bytes) == [live |-> TRUE, bytes |-> bytes]
TornDown == [live |-> FALSE, bytes |-> <<>>]

\* sandbox::Store::new_memory: the new slot's index is the id.
store_new_memory(store, initial) ==
    [store EXCEPT !.memories = Append(@, LiveMemory(Zeros(initial * SandboxPageSize)))]

\* A faulty variant of HostState::new: the store already holds a memory.
HostStateWithUsedStore(allocator) ==
    [tag |-> "Some", allocator |-> allocator, panic_message |-> NoMessage,
     sandbox_store |-> store_new_memory(SandboxStoreNew, 1)]

\* HostState::new(allocator)
HostStateNew(allocator) ==
    [tag |-> "Some", allocator |-> allocator, panic_message |-> NoMessage,
     sandbox_store |-> SandboxStoreNew]

NoHostState ==
    [tag |-> "None", allocator |-> FreeingBumpHeapAllocatorNew(0),
     panic_message |-> NoMessage, sandbox_store |-> SandboxStoreNew]

\* HostContext::register_panic_error_message
register_panic_error_message(hs, message) == [hs EXCEPT !.panic_message = message]

\* Second lock of the wrapper's mutex on the thread that holds it: the call
\* does not return, it deadlocks or panics.
RelockOutcomes == {"blocked", "crashed"}

\* Addresses the guest body "any" writes and the values it returns.
GuestAddrs == {0}
RetPtrs == {HeapBase}
RetLens == {1, WasmPageSize - 1}

\* ------------------------------------------------------------------ state
VARIABLES
    tree,        \* which tree of the executor runs
    abi,         \* the value types of the module's entry points
    hasTable,    \* the module exports __indirect_function_table
    runtime,     \* WasmEdgeRuntime: [tag, fast, snapshot_data]
    strategy,    \* Strategy of the WasmEdgeInstance
    instance,    \* the wrapper holds an instantiated module
    memory,      \* linear memory of the instance
    globals,     \* mutable globals of the instance
    host_state,  \* InstanceWrapper.host_state
    pc,          \* "idle", "guest", "blocked", "crashed"
    call,        \* the call in progress; once it is over, what it did
    result,      \* what the last call returned
    outputs,     \* the outputs seen from the pure function, by strategy and input
    imports,     \* the import section of the module handed to prepare_imports
    allow_missing_func_imports,  \* Config::allow_missing_func_imports
    linker,      \* new_instance seen from its import resolution
    stores,      \* the engine stores: the active module instance of each
    wrappers,    \* the InstanceWrappers created from one runtime
    fleet,       \* the runtime they come from: [fast, instantiations, alive]
    sandbox_store,  \* HostState::sandbox_store: the nested instances and memories
    outer,       \* the linear memory of the Instance that hosts the sandbox
    sb,          \* the last sandbox host call: its arguments and what it returned
    calc         \* a computation of the host on its own: its inputs and what it gave

importVars == <<imports, allow_missing_func_imports, linker>>

fleetVars == <<stores, wrappers, fleet>>

sandboxVars == <<sandbox_store, outer, sb>>

auxVars == <<importVars, fleetVars, sandboxVars, calc>>

vars == <<tree, abi, hasTable, runtime, strategy, instance, memory, globals,
          host_state, pc, call, result, outputs, auxVars>>

\* The import object of an InstanceWrapper: the functions bound under "env".
NoImportObject == [registered |-> FALSE, funcs |-> {}]

NoLinker ==
    [pc |-> "new", error |-> [kind |-> "None", names |-> {}],
     import_object |-> NoImportObject, handed |-> FALSE,
     called |-> "", ran_host |-> FALSE, call_failed |-> FALSE]

ImportsIdle ==
    /\ imports = <<>>
    /\ allow_missing_func_imports = FALSE
    /\ linker = NoLinker

\* The Instances of one runtime: the ids of the wrappers and of the stores
\* (store 0 is the runtime's Vm, store w the one wrapper w creates).
WrapperIds == {1, 2}
StoreIds == {0} \cup WrapperIds

\* A module instance of the engine: which instantiation it is (0: none), one
\* byte of its linear memory and one mutable global.
NoModuleInstance == [gen |-> 0, mem |-> 0, glob |-> 0]

NoWrapper ==
    [created |-> FALSE, held |-> 0, host_state |-> FALSE, own |-> NoModuleInstance]

FleetIdle ==
    /\ stores = [s \in StoreIds |-> NoModuleInstance]
    /\ wrappers = [w \in WrapperIds |-> NoWrapper]
    /\ fleet = [fast |-> FALSE, instantiations |-> 0, alive |-> [s \in StoreIds |-> 0]]

NoSandboxCall ==
    [op |-> "None", outcome |-> "None", code |-> 0, id |-> 0, offset |-> 0,
     ptr |-> 0, len |-> 0, input |-> "", outer_before |-> <<>>,
     store_before |-> SandboxStoreNew, calls |-> 0, ran |-> FALSE,
     issued |-> {}, torn |-> {}]

CalcIdle == calc = <<>>

SandboxIdle ==
    /\ sandbox_store = SandboxStoreNew
    /\ outer = <<>>
    /\ sb = NoSandboxCall

NoRuntime ==
    [tag |-> "None", fast |-> FALSE, module |-> RawBlob,
     snapshot_data |-> snapshot_data_of("substrate", RawBlob, FALSE)]

NoSnapshot == [g \in {} |-> 0]

NoStrategy ==
    [tag |-> "None", globals_snapshot |-> NoSnapshot,
     data_segments_snapshot |-> <<>>, heap_base |-> 0]

NoCall ==
    [method |-> Export(""), data |-> <<>>, body |-> "", data_ptr |-> 0,
     steps |-> 0, repeat |-> FALSE, injected |-> FALSE, invoked |-> FALSE,
     registered |-> NoMessage, trap |-> NoMessage, caught |-> FALSE, code |-> 0,
     sandboxed |-> FALSE, after_sandbox |-> FALSE, left |-> <<>>,
     size_before |-> 0, inject_err |-> NoResult]

Strategies == {"FastInstanceReuse", "RecreateInstance"}

Fast == strategy.tag = "FastInstanceReuse"

Init ==
    /\ tree \in Trees
    /\ abi \in Abis
    /\ hasTable \in BOOLEAN
    /\ runtime = NoRuntime
    /\ strategy = NoStrategy
    /\ instance = FALSE
    /\ memory = <<>>
    /\ globals = FreshGlobals
    /\ host_state = NoHostState
    /\ pc = "idle"
    /\ call = NoCall
    /\ result = NoResult
    /\ outputs = [s \in Strategies |-> [d \in Inputs |-> {}]]
    /\ ImportsIdle
    /\ FleetIdle
    /\ SandboxIdle
    /\ CalcIdle

\* -------------------------------------------------------------- lifecycle
\* create_runtime_from_artifact / do_create_runtime
create_runtime(fast_instance_reuse) ==
    /\ pc = "idle"
    /\ runtime' = [tag |-> "Some", fast |-> fast_instance_reuse,
                   module |-> prepare_blob_for_compilation(RawBlob, fast_instance_reuse),
                   snapshot_data |-> snapshot_data_of(tree, RawBlob, fast_instance_reuse)]
    /\ strategy' = NoStrategy
    /\ instance' = FALSE
    /\ memory' = <<>>
    /\ globals' = FreshGlobals
    /\ call' = NoCall
    /\ result' = NoResult
    /\ UNCHANGED <<auxVars, tree, abi, hasTable, host_state, pc, outputs>>

\* WasmEdgeRuntime::new_instance
new_instance ==
    /\ pc = "idle"
    /\ runtime.tag = "Some"
    /\ IF runtime.snapshot_data.tag = "Some"
       THEN /\ instance' = TRUE
            /\ memory' = FreshMemory
            /\ globals' = FreshGlobals
            /\ strategy' =
                 [tag |-> "FastInstanceReuse",
                  globals_snapshot |->
                      GlobalsSnapshot_take(runtime.snapshot_data.mutable_globals, FreshGlobals),
                  data_segments_snapshot |-> runtime.snapshot_data.data_segments_snapshot,
                  heap_base |-> HeapBase]
       ELSE /\ instance' = FALSE
            /\ memory' = <<>>
            /\ globals' = FreshGlobals
            /\ strategy' = [NoStrategy EXCEPT !.tag = "RecreateInstance"]
    /\ call' = NoCall
    /\ result' = NoResult
    /\ UNCHANGED <<auxVars, tree, abi, hasTable, runtime, host_state, pc, outputs>>

\* ------------------------------------------------------------------- call
\* WasmEdgeInstance::call up to perform_call: [ok, mem, glob, heap_base].
\* FastInstanceReuse restores the data segments and the globals of the
\* stored instance; RecreateInstance instantiates and extracts heap_base.
prepare_instance(strat, mem, glob) ==
    IF strat.tag = "FastInstanceReuse"
    THEN LET seg == DataSegmentsSnapshot_apply(strat.data_segments_snapshot, mem)
         IN [ok |-> seg.ok, mem |-> seg.mem,
             glob |-> GlobalsSnapshot_apply(strat.globals_snapshot, glob)]
    ELSE [ok |-> TRUE, mem |-> FreshMemory, glob |-> FreshGlobals]

\* A faulty variant of call_heap_base: the allocator is not seeded at the
\* heap base of the instance.
heap_base_ignored(strat) == 0

\* The heap base the allocator of a call is created with: the one stored in
\* the strategy, or the one extract_heap_base reads after instantiate.
call_heap_base(strat) ==
    IF strat.tag = "FastInstanceReuse" THEN strat.heap_base ELSE HeapBase

\* A faulty variant of inject_input_data: a failed allocation or copy is
\* ignored and the cursor of the allocator is passed as the pointer.
inject_input_data_unchecked(allocator, mem, data) ==
    LET a == allocate(allocator, mem, Len(data))
        w == write_memory_from(mem, a.ptr, data)
    IN [ok |-> TRUE, ptr |-> IF a.ok THEN a.ptr ELSE allocator.bumper,
        mem |-> IF a.ok /\ w.ok THEN w.mem ELSE mem,
        allocator |-> a.allocator, err |-> NoResult]

\* inject_input_data: [ok, ptr, mem, allocator, err].
inject_input_data(allocator, mem, data) ==
    LET a == allocate(allocator, mem, Len(data))
        w == write_memory_from(mem, a.ptr, data)
    IN IF ~a.ok
       THEN [ok |-> FALSE, ptr |-> 0, mem |-> mem, allocator |-> allocator,
             err |-> Err("Allocator", "allocator ran out of space", 0)]
       ELSE IF ~w.ok
            THEN [ok |-> FALSE, ptr |-> 0, mem |-> mem, allocator |-> a.allocator,
                  err |-> Err("Other", "memory write is out of bounds", 0)]
            ELSE [ok |-> TRUE, ptr |-> a.ptr, mem |-> w.mem, allocator |-> a.allocator,
                  err |-> NoResult]

\* extract_output_data
extract_output_data(mem, output_ptr, output_len) ==
    LET r == read_memory_into(mem, output_ptr, output_len)
    IN IF r.ok THEN Ok(r.bytes) ELSE Err("Other", "memory read is out of bounds", 0)

\* A faulty variant of call_output: the output is read once the memory has
\* been decommitted.
output_after_decommit(fast, mem, output_ptr, output_len) ==
    extract_output_data(IF fast THEN decommit(mem) ELSE mem, output_ptr, output_len)

\* The output of a call whose dispatch succeeded: perform_call ends with
\* extract_output_data, and FastInstanceReuse decommits once perform_call has
\* returned.
call_output(fast, mem, output_ptr, output_len) ==
    extract_output_data(mem, output_ptr, output_len)

\* The bytes the guest left at the range it returns.
LeftAt(mem, output_ptr, output_len) == read_memory_into(mem, output_ptr, output_len).bytes

\* The end of perform_call and of WasmEdgeInstance::call once the dispatch is
\* over: the HostState is removed, FastInstanceReuse decommits the memory.
\* What is kept of a call once it is over.
Finished(c) ==
    [c EXCEPT !.data = IF c.body = "pure" THEN @ ELSE <<>>, !.data_ptr = 0, !.steps = 0,
              !.after_sandbox = FALSE]

Return(res, mem, glob, c) ==
    /\ host_state' = set_host_state(host_state, NoHostState)
    /\ memory' = IF Fast THEN decommit(mem) ELSE mem
    /\ globals' = glob
    /\ result' = res
    /\ call' = Finished(c)
    /\ pc' = "idle"
    /\ outputs' = IF c.body = "pure" /\ c.invoked /\ res.tag = "Ok"
                  THEN [outputs EXCEPT ![strategy.tag][c.data] = @ \cup {res.output}]
                  ELSE outputs
    /\ UNCHANGED <<auxVars, tree, abi, hasTable, runtime, strategy, instance>>

\* WasmEdgeInstance::call(method, data), until the guest function is entered
\* or the call has failed before that.
CallStart(method, data) ==
    /\ pc = "idle"
    /\ strategy.tag # "None"
    /\ LET c0 == [NoCall EXCEPT !.method = method, !.data = data,
                                !.repeat = /\ call.invoked
                                           /\ call.body = "pure"
                                           /\ call.method = method
                                           /\ call.data = data
                                           /\ result.tag = "Ok",
                                !.after_sandbox = call.sandboxed]
           pre == prepare_instance(strategy, memory, globals)
           inj == inject_input_data(FreeingBumpHeapAllocatorNew(call_heap_base(strategy)),
                                    pre.mem, data)
           tgt == resolve(tree, abi, hasTable, method)
           c1 == [c0 EXCEPT !.injected = TRUE, !.data_ptr = inj.ptr]
       IN IF ~pre.ok
          THEN \* the restore failed: call returns at once, nothing is decommitted
               /\ result' = Err("Other", "memory write is out of bounds", 0)
               /\ memory' = pre.mem
               /\ call' = Finished(c0)
               /\ UNCHANGED <<auxVars, tree, abi, hasTable, runtime, strategy, instance, globals,
                              host_state, pc, outputs>>
          ELSE IF ~inj.ok
          THEN /\ instance' = TRUE
               /\ memory' = IF Fast THEN decommit(inj.mem) ELSE inj.mem
               /\ globals' = pre.glob
               /\ result' = inj.err
               /\ call' = Finished([c0 EXCEPT !.inject_err = inj.err])
               /\ UNCHANGED <<auxVars, tree, abi, hasTable, runtime, strategy, host_state, pc, outputs>>
          ELSE IF ~tgt.ok
          THEN /\ instance' = TRUE
               /\ host_state' = set_host_state(set_host_state(host_state,
                                                  HostStateNew(inj.allocator)), NoHostState)
               /\ memory' = IF Fast THEN decommit(inj.mem) ELSE inj.mem
               /\ globals' = pre.glob
               /\ result' = tgt.err
               /\ call' = Finished(c1)
               /\ UNCHANGED <<auxVars, tree, abi, hasTable, runtime, strategy, pc, outputs>>
          ELSE /\ instance' = TRUE
               /\ host_state' = set_host_state(host_state, HostStateNew(inj.allocator))
               /\ memory' = inj.mem
               /\ globals' = pre.glob
               /\ call' = [c1 EXCEPT !.invoked = TRUE, !.body = tgt.func.body,
                                      !.size_before = Len(memory)]
               /\ pc' = "guest"
               /\ result' = NoResult
               /\ UNCHANGED <<auxVars, tree, abi, hasTable, runtime, strategy, outputs>>

\* --------------------------------------------------------- guest function
GuestStep == pc = "guest" /\ call.body = "any" /\ call.steps < MaxGuestSteps

Stepped == [call EXCEPT !.steps = @ + 1]

GuestWrite(address, value) ==
    /\ GuestStep
    /\ address < Len(memory)
    /\ memory' = write_memory_from(memory, address, <<value>>).mem
    /\ call' = Stepped
    /\ UNCHANGED <<auxVars, tree, abi, hasTable, runtime, strategy, instance, globals,
                   host_state, pc, result, outputs>>

GuestSetGlobal(g, value) ==
    /\ GuestStep
    /\ globals' = [globals EXCEPT ![g] = value]
    /\ call' = Stepped
    /\ UNCHANGED <<auxVars, tree, abi, hasTable, runtime, strategy, instance, memory,
                   host_state, pc, result, outputs>>

\* memory.grow by one page
GuestGrow ==
    /\ GuestStep
    /\ Len(memory) + WasmPageSize <= MaxPages * WasmPageSize
    /\ memory' = memory \o Zeros(WasmPageSize)
    /\ call' = Stepped
    /\ UNCHANGED <<auxVars, tree, abi, hasTable, runtime, strategy, instance, globals,
                   host_state, pc, result, outputs>>

\* The guest function returns the packed pointer and length of its output.
GuestReturn(ptr, len) ==
    /\ pc = "guest"
    /\ call.body = "any"
    /\ LET ret == unpack_ptr_and_len(pack_ptr_and_len(ptr, len))
       IN Return(call_output(Fast, memory, ret.ptr, ret.len), memory, globals,
                 [call EXCEPT !.left = LeftAt(memory, ptr, len)])

\* The guest function traps.
GuestTrap(trap) ==
    /\ pc = "guest"
    /\ call.body = "any"
    /\ Return(trap_to_error(host_state.panic_message, trap), memory, globals,
              [call EXCEPT !.trap = trap])

\* The exported function "pure": its output is computed from the input, a
\* mutable global, a data-segment byte and a scratch byte of the heap, and it
\* overwrites all three before it returns.
PureOutput(mem, glob, ptr, len) ==
    (SumSeq(read_memory_into(mem, ptr, len).bytes)
        + glob["exported_internal_global_0"] + mem[1] + mem[WasmPageSize]) % 3

GuestRunPure ==
    /\ pc = "guest"
    /\ call.body = "pure"
    /\ LET out == PureOutput(memory, globals, call.data_ptr, Len(call.data))
           m1 == write_memory_from(memory, 0, <<0, out>>).mem
           m2 == write_memory_from(m1, WasmPageSize - 1, <<1>>).mem
           g2 == [globals EXCEPT !["exported_internal_global_0"] = 2]
           ret == unpack_ptr_and_len(pack_ptr_and_len(1, 1))
       IN Return(call_output(Fast, m2, ret.ptr, ret.len), m2, g2,
                 [call EXCEPT !.left = LeftAt(m2, 1, 1)])

\* ---------------------------------------------------------- host functions
\* function_static of the substrate tree reaches the HostState through the
\* wrapper's pointer and runs the host function under catch_unwind.
HostStep == GuestStep /\ tree = "substrate"

\* The bridge returns Err(HostFuncError::User(code)): the engine aborts the
\* guest function with it and InstanceWrapper::call maps the abort.
BridgeFails(code, caught) ==
    Return(trap_to_error(host_state.panic_message, HostFuncErrorText(code)),
           memory, globals,
           [call EXCEPT !.trap = HostFuncErrorText(code), !.code = code,
                        !.caught = caught])

\* A host function that allocates (HostContext::allocate_memory); it aborts
\* with "Failed to allocate memory" when the allocator refuses.
HostMalloc(size) ==
    /\ HostStep
    /\ LET a == allocate(host_state.allocator, memory_slice(memory), size)
       IN IF a.ok
          THEN /\ host_state' = [host_state EXCEPT !.allocator = a.allocator]
               /\ call' = Stepped
               /\ UNCHANGED <<auxVars, tree, abi, hasTable, runtime, strategy, instance, memory,
                              globals, pc, result, outputs>>
          ELSE BridgeFails(unwind_code(AllocPanic), TRUE)

\* A host function that frees (HostContext::deallocate_memory).
HostFree(ptr) ==
    /\ HostStep
    /\ LET d == deallocate(host_state.allocator, memory_slice(memory), ptr)
       IN IF d.ok
          THEN /\ host_state' = [host_state EXCEPT !.allocator = d.allocator]
               /\ call' = Stepped
               /\ UNCHANGED <<auxVars, tree, abi, hasTable, runtime, strategy, instance, memory,
                              globals, pc, result, outputs>>
          ELSE BridgeFails(unwind_code(PlainPanic), TRUE)

\* A host function that creates a sandboxed memory (HostContext::memory_new)
\* in the store of the call's HostState.
HostSandboxMemoryNew ==
    /\ HostStep
    /\ Len(host_state.sandbox_store.memories) < MaxSandboxObjects
    /\ host_state' = [host_state EXCEPT !.sandbox_store = store_new_memory(@, 1)]
    /\ call' = [Stepped EXCEPT !.sandboxed = TRUE]
    /\ UNCHANGED <<auxVars, tree, abi, hasTable, runtime, strategy, instance, memory,
                   globals, pc, result, outputs>>

\* A host function that records a fatal message and returns to the guest.
HostRegisterPanic(message) ==
    /\ HostStep
    /\ host_state' = register_panic_error_message(host_state, message)
    /\ call' = [Stepped EXCEPT !.registered = message]
    /\ UNCHANGED <<auxVars, tree, abi, hasTable, runtime, strategy, instance, memory,
                   globals, pc, result, outputs>>

\* A host function that aborts with the given payload.
HostPanics(payload) ==
    /\ HostStep
    /\ BridgeFails(unwind_code(payload), TRUE)

\* A host function whose execution result is Err(_).
HostErrs ==
    /\ HostStep
    /\ BridgeFails(Others, FALSE)

\* The export "call_get_value" in the substrate tree: the guest calls the
\* host function get_value, stores what it returns at heap_base and returns
\* that range.
GuestRunGetValue ==
    /\ pc = "guest"
    /\ call.body = "call_get_value"
    /\ tree = "substrate"
    /\ LET w == write_memory_from(memory, HeapBase, get_value)
           ret == unpack_ptr_and_len(pack_ptr_and_len(HeapBase, Len(get_value)))
       IN Return(call_output(Fast, w.mem, ret.ptr, ret.len), w.mem, globals,
                 [call EXCEPT !.left = LeftAt(w.mem, HeapBase, Len(get_value))])

\* function_static of the client tree locks the wrapper's mutex, which
\* perform_call holds for the length of the dispatch.
HostCallRelocks(outcome) ==
    /\ pc = "guest"
    /\ call.body \in {"any", "call_get_value"}
    /\ tree = "client"
    /\ pc' = outcome
    /\ UNCHANGED <<auxVars, tree, abi, hasTable, runtime, strategy, instance, memory, globals,
                   host_state, call, result, outputs>>

Next ==
    \/ \E fast_instance_reuse \in BOOLEAN : create_runtime(fast_instance_reuse)
    \/ new_instance
    \/ \E method \in Methods, data \in Inputs : CallStart(method, data)
    \/ \E address \in GuestAddrs : GuestWrite(address, 2)
    \/ \E g \in MutableGlobalNames : GuestSetGlobal(g, 2)
    \/ GuestGrow
    \/ \E ptr \in RetPtrs, len \in RetLens : GuestReturn(ptr, len)
    \/ \E trap \in TrapMessages : GuestTrap(trap)
    \/ GuestRunPure
    \/ HostMalloc(1)
    \/ \E ptr \in {0, HeapBase} : HostFree(ptr)
    \/ \E message \in PanicMessages : HostRegisterPanic(message)
    \/ HostSandboxMemoryNew
    \/ \E payload \in Payloads : HostPanics(payload)
    \/ HostErrs
    \/ GuestRunGetValue
    \/ \E outcome \in RelockOutcomes : HostCallRelocks(outcome)

Spec == Init /\ [][Next]_vars

\* ------------------------------------------------------------- properties
\* The guest function of the call has been entered and has not made a step.
AtGuestStart == pc = "guest" /\ call.steps = 0

\* The bytes of linear memory at the place of a data segment.
SegmentBytes(seg) == read_memory_into(memory, seg.offset, Len(seg.contents)).bytes

SubstrateFast == tree = "substrate" /\ Fast

\* C1: under FastInstanceReuse (tree of runtime.rs 232-255), when the guest
\* function of a call starts, every exposed mutable global has its value of
\* the globals snapshot and every data-segment range of the memory holds the
\* snapshot bytes, whatever earlier calls on the instance did.
C1_SnapshotRestoredAtGuestStart ==
    (SubstrateFast /\ AtGuestStart) =>
        /\ \A g \in MutableGlobalNames :
               /\ g \in DOMAIN strategy.globals_snapshot
               /\ globals[g] = strategy.globals_snapshot[g]
        /\ \A i \in 1 .. Len(strategy.data_segments_snapshot) :
               SegmentBytes(strategy.data_segments_snapshot[i])
                   = strategy.data_segments_snapshot[i].contents

\* A call starts on an instance whose previous call ran the function "pure",
\* which overwrote the global and the data segment.
C1_Witness == SubstrateFast /\ AtGuestStart /\ call.repeat

\* C2: every Ok output of the pure function for one input is the same, over
\* all calls under FastInstanceReuse and under RecreateInstance, and a call
\* repeated on the same instance returns Ok again.
C2_PureOutputsAgree ==
    tree = "substrate" =>
        /\ \A d \in Inputs :
               Cardinality(outputs["FastInstanceReuse"][d]
                               \cup outputs["RecreateInstance"][d]) <= 1
        /\ (pc = "idle" /\ call.repeat) => result.tag = "Ok"

\* The second of two consecutive calls under FastInstanceReuse has returned,
\* and the same input was run under RecreateInstance before.
C2_Witness ==
    /\ SubstrateFast
    /\ pc = "idle"
    /\ call.repeat
    /\ result.tag = "Ok"
    /\ outputs["RecreateInstance"][call.data] # {}

\* C3, as the code has it: once a call under FastInstanceReuse has returned,
\* the data-segment ranges of the memory read zero (the memory was
\* decommitted); the module's initial globals and data-segment bytes are in
\* place again when the guest function of the next call starts.
C3_ZeroAfterReturnPristineAtNextStart ==
    SubstrateFast =>
        /\ (pc = "idle" /\ result # NoResult) =>
               \A i \in 1 .. Len(DataSegments) :
                   SegmentBytes(DataSegments[i]) = Zeros(Len(DataSegments[i].contents))
        /\ AtGuestStart =>
               /\ globals = InitialGlobals
               /\ \A i \in 1 .. Len(DataSegments) :
                      SegmentBytes(DataSegments[i]) = DataSegments[i].contents

\* A call that changed a global has returned.
C3_Witness ==
    /\ SubstrateFast
    /\ pc = "idle"
    /\ call.invoked
    /\ globals # InitialGlobals

\* C3 as stated: once a call under FastInstanceReuse has returned, the
\* globals and the data-segment ranges hold the module's initial values.
C3_PristineAfterReturn ==
    (SubstrateFast /\ pc = "idle" /\ result # NoResult) =>
        /\ globals = InitialGlobals
        /\ \A i \in 1 .. Len(DataSegments) :
               SegmentBytes(DataSegments[i]) = DataSegments[i].contents

\* C4: when the guest function of a call starts, under both strategies, the
\* allocator of the call is the one a new allocator seeded at heap_base
\* becomes by allocating the input, and the input lies at heap_base.
C4_FreshAllocatorEveryCall ==
    AtGuestStart =>
        LET a == allocate(FreeingBumpHeapAllocatorNew(HeapBase), memory, Len(call.data))
        IN /\ a.ok
           /\ host_state.allocator = a.allocator
           /\ call.data_ptr = a.ptr
           /\ call.data_ptr = HeapBase

\* A call starts on an instance an earlier call has grown the memory of.
C4_Witness ==
    /\ AtGuestStart
    /\ Fast
    /\ Len(memory) > InitialPages * WasmPageSize
    /\ call.data_ptr = HeapBase

\* C5: a HostState is present while the dispatch is in progress, with the
\* input already in memory when the guest function starts, and absent when
\* no call is in progress, whatever way the call ended.
C5_HostStateBracketsDispatch ==
    /\ pc = "idle" => host_state.tag = "None"
    /\ pc # "idle" => host_state.tag = "Some"
    /\ AtGuestStart =>
           read_memory_into(memory, call.data_ptr, Len(call.data)).bytes = call.data

\* A call that trapped has returned.
C5_Witness ==
    /\ pc = "idle"
    /\ call.invoked
    /\ result.error = "AbortedDueToTrap"
    /\ host_state.tag = "None"

\* C6: a call whose guest function aborted returns AbortedDueToPanic with
\* the last message a host function registered during the call if there is
\* one, and AbortedDueToTrap with the trap message otherwise.
C6_PanicMessageBeforeTrap ==
    (pc = "idle" /\ call.trap # NoMessage) =>
        result = IF call.registered # NoMessage
                 THEN Err("AbortedDueToPanic", call.registered, 0)
                 ELSE Err("AbortedDueToTrap", call.trap, 0)

\* A call in which a message was registered before the trap has returned.
C6_Witness ==
    /\ pc = "idle"
    /\ call.trap \in TrapMessages
    /\ call.registered \in PanicMessages
    /\ result.error = "AbortedDueToPanic"

\* The function a method names, when there is one.
MethodFunc(method) ==
    IF method.kind = "Export" THEN ExportFunc(abi, method.name)
    ELSE IF hasTable /\ method.index < TableSize THEN TableSlot(abi, method.index)
    ELSE NoFunc

ByTable == call.method.kind \in {"Table", "TableWithWrapper"}

\* C7: a dispatch by table index on a module without a table returns
\* NoTable, on an index out of range NoTableEntryWithIndex(index), on a null
\* slot FunctionRefIsNull(index); the guest function is entered only for a
\* slot that holds a function.
C7_BadTableTargetIsAnError ==
    /\ (pc = "idle" /\ call.injected /\ ByTable) =>
           /\ ~hasTable => result = Err("NoTable", "", 0) /\ ~call.invoked
           /\ (hasTable /\ call.method.index >= TableSize) =>
                  /\ result = Err("NoTableEntryWithIndex", "", call.method.index)
                  /\ ~call.invoked
           /\ (hasTable /\ call.method.index < TableSize
                        /\ TableSlot(abi, call.method.index).tag = "None") =>
                  /\ result = Err("FunctionRefIsNull", "", call.method.index)
                  /\ ~call.invoked
    /\ (pc # "idle" /\ ByTable) => MethodFunc(call.method).tag = "Some"

C7_Witness ==
    /\ pc = "idle"
    /\ call.method = Table(0)
    /\ hasTable
    /\ result.error = "FunctionRefIsNull"

\* The signature the entry point of a method must have.
ExpectedParams(method) ==
    IF method.kind = "TableWithWrapper" THEN <<I32, I32, I32>> ELSE <<I32, I32>>

SignatureMatches(method) ==
    /\ MethodFunc(method).params = ExpectedParams(method)
    /\ MethodFunc(method).returns = <<I64>>

\* C8 (tree of instance_wrapper.rs 78-87 and 298-338): the guest function is
\* entered only when its signature is the expected one, and a call to a
\* function of another signature returns the invalid-signature error, which
\* is neither AbortedDueToTrap nor AbortedDueToPanic.
C8_SignatureCheckedExactly ==
    tree = "substrate" =>
        /\ pc # "idle" => SignatureMatches(call.method)
        /\ (pc = "idle" /\ call.injected /\ MethodFunc(call.method).tag = "Some"
                /\ ~SignatureMatches(call.method)) =>
               /\ result = InvalidSignature
               /\ result.error \notin {"AbortedDueToTrap", "AbortedDueToPanic"}
               /\ ~call.invoked

C8_Witness ==
    /\ tree = "substrate"
    /\ abi = "int"
    /\ pc = "idle"
    /\ call.method = Export("bad_result")
    /\ result = InvalidSignature

\* C9 as stated: a call whose guest function calls a host function never
\* stops at the lock of the wrapper.
C9_HostCallNeverBlocks == pc \notin RelockOutcomes

\* C10 as stated: the code the bridge returns for a caught abort is the one
\* it returns for every payload.
C10_OneFailureCode ==
    (pc = "idle" /\ call.caught) => \A payload \in Payloads : call.code = unwind_code(payload)


\* ================================================================ imports
\* The longest import section drawn for a module.
MaxImports == 2

\* sp_wasm_interface::ValueType, the kinds a host function declares.
ValueTypes == {"ValueType::I32", "ValueType::I64", "ValueType::F32", "ValueType::F64"}

into_wasmedge_val_type(val_ty) ==
    CASE val_ty = "ValueType::I32" -> I32
      [] val_ty = "ValueType::I64" -> I64
      [] val_ty = "ValueType::F32" -> F32
      [] val_ty = "ValueType::F64" -> F64

\* The kinds of a signature, each converted.
into_wasmedge_val_types(tys) == [i \in 1..Len(tys) |-> into_wasmedge_val_type(tys[i])]

FuncType(params, results) == [params |-> params, results |-> results]

\* The `() -> ()` type of `with_func::<(), (), !>`.
UnitFuncType == FuncType(<<>>, <<>>)

\* The host functions of the executor: name, args and optional return_value
\* (an Option is a sequence of at most one element).
HostFunctions ==
    { [name |-> "ext_a", args |-> <<"ValueType::I32">>, return_value |-> <<>>],
      [name |-> "ext_b", args |-> <<>>, return_value |-> <<"ValueType::I64">>] }

HostFunctionNames == {h.name : h \in HostFunctions}

find_host_func(host_functions, name) ==
    CHOOSE h \in host_functions : h.name = name

\* FuncType::new(params, results) of the host function's signature().
host_func_ty(host_func) ==
    FuncType(into_wasmedge_val_types(host_func.args),
             into_wasmedge_val_types(host_func.return_value))

\* One entry of module.imports().
ImportType(module_name, name, kind, ty) ==
    [module_name |-> module_name, name |-> name, kind |-> kind, ty |-> ty]

ImportUniverse ==
    { ImportType("env", "ext_a", "Func", FuncType(<<I32>>, <<>>)),
      ImportType("env", "ext_a", "Func", FuncType(<<I64>>, <<>>)),
      ImportType("env", "ext_b", "Func", FuncType(<<>>, <<>>)),
      ImportType("env", "ext_x", "Func", UnitFuncType),
      ImportType("env", "ext_y", "Func", FuncType(<<I32>>, <<>>)),
      ImportType("wasi", "ext_a", "Func", FuncType(<<I32>>, <<>>)),
      ImportType("wasi", "ext_x", "Func", UnitFuncType),
      ImportType("env", "memory", "Memory", UnitFuncType) }

ImportSections ==
    UNION { [1..n -> ImportUniverse] : n \in 0..MaxImports }

\* "module:name", as the error texts print an import.
FullName(import_ty) == <<import_ty.module_name, import_ty.name>>

ImportError(kind, names) == [kind |-> kind, names |-> names]

NoImportError == ImportError("None", {})

\* The last import the first loop would reject, had it gone through them all.
last_rejected(section) ==
    LET bad == {i \in 1..Len(section) :
                   section[i].module_name # "env" \/ section[i].kind # "Func"}
    IN  IF bad = {} THEN 0 ELSE CHOOSE i \in bad : \A j \in bad : j <= i

\* The first loop of prepare_imports: the index of the first import that is
\* not under "env" or is not a function, 0 when there is none.
first_rejected(section) ==
    LET bad == {i \in 1..Len(section) :
                   section[i].module_name # "env" \/ section[i].kind # "Func"}
    IN  IF bad = {} THEN 0 ELSE CHOOSE i \in bad : \A j \in bad : i <= j

\* pending_func_imports: a map keyed by name, a later insert replaces an
\* earlier one of the same name.
pending_func_imports(section) ==
    LET names == {section[i].name : i \in 1..Len(section)}
        last(n) == CHOOSE i \in 1..Len(section) :
                       /\ section[i].name = n
                       /\ \A j \in 1..Len(section) : section[j].name = n => j <= i
    IN  [n \in names |-> section[last(n)]]

\* The names of the pending imports the host has no function for.
missing_func_imports(pending, host_functions) ==
    {n \in DOMAIN pending : n \notin {h.name : h \in host_functions}}

\* The pending imports whose host function has another signature (the client
\* tree builds the type of the host function and does not compare it).
signature_mismatches(t, pending, host_functions) ==
    IF t = "substrate"
    THEN {n \in DOMAIN pending :
              /\ n \in {h.name : h \in host_functions}
              /\ pending[n].ty # host_func_ty(find_host_func(host_functions, n))}
    ELSE {}

Binding(name, ty, stub) == [name |-> name, ty |-> ty, stub |-> stub]

\* The functions the second loop adds to the import object.
host_bindings(pending, host_functions) ==
    {Binding(n, host_func_ty(find_host_func(host_functions, n)), FALSE) :
        n \in {m \in DOMAIN pending : m \in {h.name : h \in host_functions}}}

\* The stubs bound for the missing imports when they are allowed: typed
\* `() -> ()` in the substrate tree, never added to the import object in the
\* client tree.
stub_bindings(t, pending, missing) ==
    IF t = "substrate"
    THEN {Binding(n, UnitFuncType, TRUE) : n \in missing}
    ELSE {}

PrepareResult(ok, error, import_object) ==
    [ok |-> ok, error |-> error, import_object |-> import_object]

\* The error of the unresolved imports.
missing_error_first_only(section, missing) ==
    ImportError("missing", {<<"env", CHOOSE n \in missing : TRUE>>})

missing_error(section, missing) ==
    ImportError("missing", {<<"env", n>> : n \in missing})

\* What a failed resolution leaves on the wrapper.
import_object_left_registered(bindings) == [registered |-> TRUE, funcs |-> bindings]

import_object_on_failure(bindings) == NoImportObject

\* prepare_imports: the set of its possible results (the second loop walks a
\* hash map, so which mismatch it meets first is not determined).
prepare_imports(t, section, host_functions, allow_missing) ==
    LET rejected == first_rejected(section)
        pending == pending_func_imports(section)
        mismatches == signature_mismatches(t, pending, host_functions)
        missing == missing_func_imports(pending, host_functions)
        bound == host_bindings(pending, host_functions)
    IN  IF rejected # 0
        THEN {PrepareResult(FALSE,
                  ImportError(IF section[rejected].module_name # "env"
                              THEN "non-env" ELSE "non-function",
                              {FullName(section[rejected])}),
                  import_object_on_failure({}))}
        ELSE IF mismatches # {}
        THEN {PrepareResult(FALSE, ImportError("signature mismatch", {<<"env", n>>}),
                            import_object_on_failure(bound)) : n \in mismatches}
        ELSE IF missing # {} /\ ~allow_missing
        THEN {PrepareResult(FALSE, missing_error(section, missing),
                            import_object_on_failure(bound))}
        ELSE {PrepareResult(TRUE, NoImportError,
                  [registered |-> TRUE,
                   funcs |-> bound \cup stub_bindings(t, pending, missing)])}

\* The engine's linking at instantiation: every function import of the module
\* must find a function of its name and of its type in the import object.
link_failures(section, import_object) ==
    {i \in 1..Len(section) :
        ~\E b \in import_object.funcs :
            b.name = section[i].name /\ b.ty = section[i].ty}

instantiate_links(section, import_object) == link_failures(section, import_object) = {}

\* The function the engine calls for an import of the instantiated module.
bound_function(import_object, name) ==
    CHOOSE b \in import_object.funcs : b.name = name

\* The state of the call path while another part of the executor is looked at.
CallPathIdle ==
    /\ runtime = NoRuntime
    /\ strategy = NoStrategy
    /\ instance = FALSE
    /\ memory = <<>>
    /\ globals = FreshGlobals
    /\ host_state = NoHostState
    /\ pc = "idle"
    /\ call = NoCall
    /\ result = NoResult
    /\ outputs = [s \in Strategies |-> [d \in Inputs |-> {}]]

MainIdle ==
    /\ abi = "int"
    /\ hasTable = FALSE
    /\ CallPathIdle

ImportsInit ==
    /\ tree \in Trees
    /\ MainIdle
    /\ FleetIdle
    /\ SandboxIdle
    /\ CalcIdle
    /\ imports \in ImportSections
    /\ allow_missing_func_imports \in BOOLEAN
    /\ linker = NoLinker

mainVars == <<tree, abi, hasTable, runtime, strategy, instance, memory, globals,
              host_state, pc, call, result, outputs>>

notImports == <<mainVars, fleetVars, sandboxVars, calc>>

\* WasmEdgeRuntime::new_instance, seen from the imports: prepare_imports, then
\* with fast instance reuse the instantiation; the Instance is handed to the
\* caller only when every step succeeded.
link_new_instance(fast_instance_reuse) ==
    /\ linker.pc = "new"
    /\ \E r \in prepare_imports(tree, imports, HostFunctions, allow_missing_func_imports) :
          linker' =
            IF ~r.ok
            THEN [linker EXCEPT !.pc = "failed", !.error = r.error,
                                !.import_object = r.import_object]
            ELSE IF ~fast_instance_reuse
            THEN [linker EXCEPT !.pc = "resolved", !.import_object = r.import_object,
                                !.handed = TRUE]
            ELSE IF instantiate_links(imports, r.import_object)
            THEN [linker EXCEPT !.pc = "instantiated", !.import_object = r.import_object,
                                !.handed = TRUE]
            ELSE [linker EXCEPT !.pc = "link failed", !.import_object = r.import_object,
                                !.error = ImportError("instantiate", {})]
    /\ UNCHANGED <<notImports, imports, allow_missing_func_imports>>

\* RecreateInstance: the call instantiates the module first.
link_call_instantiate ==
    /\ linker.pc = "resolved"
    /\ linker' =
         IF instantiate_links(imports, linker.import_object)
         THEN [linker EXCEPT !.pc = "instantiated"]
         ELSE [linker EXCEPT !.pc = "call failed", !.call_failed = TRUE,
                             !.error = ImportError("instantiate", {})]
    /\ UNCHANGED <<notImports, imports, allow_missing_func_imports>>

\* The guest calls one of its imports: the bridge of a host function runs it,
\* a stub returns HostFuncError::User(MissingHostFunc) and the call fails.
GuestCallsImport(i) ==
    /\ linker.pc = "instantiated"
    /\ LET f == bound_function(linker.import_object, imports[i].name)
       IN  linker' = [linker EXCEPT !.pc = "called", !.called = imports[i].name,
                                    !.ran_host = ~f.stub, !.call_failed = f.stub]
    /\ UNCHANGED <<notImports, imports, allow_missing_func_imports>>

ImportsNext ==
    \/ \E fast_instance_reuse \in BOOLEAN : link_new_instance(fast_instance_reuse)
    \/ link_call_instantiate
    \/ \E i \in 1..MaxImports : i <= Len(imports) /\ GuestCallsImport(i)

ImportsSpec == ImportsInit /\ [][ImportsNext]_vars


\* ------------------------------------------------------- import properties
FuncImports == {i \in 1..Len(imports) : imports[i].kind = "Func"}

\* The function imports of the module the host has no function for.
Unresolved ==
    {FullName(imports[i]) : i \in {j \in FuncImports : imports[j].name \notin HostFunctionNames}}

\* The imports outside "env" and the imports that are not functions.
OutsideEnv == {i \in 1..Len(imports) : imports[i].module_name # "env"}
NonFunction == {i \in 1..Len(imports) : imports[i].kind # "Func"}

\* The function imports whose host function of the same name has another
\* signature.
Mismatched ==
    {i \in FuncImports :
        \E h \in HostFunctions :
            /\ h.name = imports[i].name
            /\ imports[i].ty # host_func_ty(h)}

Resolved == linker.pc # "new"

ResolutionFailed == linker.pc = "failed"

\* C11: with allow_missing_func_imports false, for a module whose imports are
\* all functions under "env" with the signatures of their host functions,
\* prepare_imports fails with the one error that names every unresolved
\* import when there is one, and succeeds when there is none.
C11_MissingImportsAllNamed ==
    (/\ Resolved
     /\ ~allow_missing_func_imports
     /\ OutsideEnv = {} /\ NonFunction = {} /\ Mismatched = {})
    => /\ ResolutionFailed <=> Unresolved # {}
       /\ ResolutionFailed => linker.error = ImportError("missing", Unresolved)
       /\ ~ResolutionFailed => linker.error.kind # "missing"

C11_Witness ==
    /\ ResolutionFailed
    /\ ~allow_missing_func_imports
    /\ linker.error.kind = "missing"
    /\ Cardinality(Unresolved) = 2
    /\ linker.error.names = Unresolved


InstantiationFailed == linker.pc \in {"link failed", "call failed"}

\* C12: with allow_missing_func_imports true, for a module whose only
\* unresolved imports are functions under "env", resolution and instantiation
\* succeed, every unresolved import is bound to a stub, and a guest call to
\* such an import fails without running a host function.
C12_MissingImportsStubbed ==
    (/\ Resolved
     /\ allow_missing_func_imports
     /\ OutsideEnv = {} /\ NonFunction = {} /\ Mismatched = {}
     /\ Unresolved # {})
    => /\ ~ResolutionFailed
       /\ ~InstantiationFailed
       /\ \A n \in Unresolved :
              \E b \in linker.import_object.funcs : b.name = n[2] /\ b.stub
       /\ (linker.pc = "called" /\ <<"env", linker.called>> \in Unresolved)
              => linker.call_failed /\ ~linker.ran_host


\* C13: for every function import the host has a function of the same name
\* for, a signature that differs from the import's makes prepare_imports fail
\* with the signature error naming such an import, and no host function is
\* bound under the name of an import of another type.
C13_SignatureComparedBeforeBinding ==
    (Resolved /\ OutsideEnv = {} /\ NonFunction = {})
    => /\ Mismatched # {}
            => /\ ResolutionFailed
               /\ linker.error.kind = "signature mismatch"
               /\ linker.error.names \subseteq {FullName(imports[i]) : i \in Mismatched}
               /\ linker.error.names # {}
       /\ \A i \in FuncImports : \A b \in linker.import_object.funcs :
              (b.name = imports[i].name /\ ~b.stub) => b.ty = imports[i].ty


NamesOf(indexes) == {FullName(imports[i]) : i \in indexes}

\* The first import, in the order of the import section, that is outside
\* "env" or is not a function.
FirstOffender ==
    CHOOSE i \in OutsideEnv \cup NonFunction :
        \A j \in OutsideEnv \cup NonFunction : i <= j

\* C14: in the substrate tree the error of the unresolved imports names every
\* unresolved import; the error of an import outside "env", of a non-function
\* import and of a signature mismatch names one offending import only: the
\* first of the import section for the first two, one of the mismatched
\* imports for the third.
C14_OnlyUnresolvedErrorEnumerates ==
    (tree = "substrate" /\ ResolutionFailed)
    => /\ linker.error.kind \in {"non-env", "non-function", "signature mismatch", "missing"}
       /\ linker.error.kind = "missing" => linker.error.names = Unresolved
       /\ linker.error.kind \in {"non-env", "non-function"}
              => /\ linker.error.names = {FullName(imports[FirstOffender])}
                 /\ linker.error.kind = "non-env" <=> FirstOffender \in OutsideEnv
       /\ linker.error.kind = "signature mismatch"
              => /\ Cardinality(linker.error.names) = 1
                 /\ linker.error.names \subseteq NamesOf(Mismatched)

\* Two imports outside "env" are declared and the error names the first.
C14_Witness ==
    /\ tree = "substrate"
    /\ ResolutionFailed
    /\ linker.error.kind = "non-env"
    /\ Cardinality(NamesOf(OutsideEnv)) = 2
    /\ linker.error.names = {FullName(imports[1])}

\* C14 as stated: every error names every offending import of its kind.
C14_EveryOffenderReported ==
    (tree = "substrate" /\ ResolutionFailed)
    => /\ linker.error.kind = "non-env" => linker.error.names = NamesOf(OutsideEnv)
       /\ linker.error.kind = "non-function" => linker.error.names = NamesOf(NonFunction)
       /\ linker.error.kind = "signature mismatch" => linker.error.names = NamesOf(Mismatched)
       /\ linker.error.kind = "missing" => linker.error.names = Unresolved


\* C15: in the substrate tree a module with an import outside "env" or a
\* non-function import is rejected, and whenever import resolution fails no
\* import object is registered on the wrapper and no Instance is handed to the
\* caller.
C15_FailedResolutionLeavesNothing ==
    (tree = "substrate" /\ Resolved)
    => /\ (OutsideEnv \cup NonFunction) # {} => ResolutionFailed
       /\ ResolutionFailed
              => /\ ~linker.import_object.registered
                 /\ linker.import_object.funcs = {}
                 /\ ~linker.handed
                 /\ linker.error.kind # "None"

\* A resolution that failed at the signature check, after the first loop had
\* accepted every import.
C15_Witness ==
    /\ tree = "substrate"
    /\ ResolutionFailed
    /\ linker.error.kind = "signature mismatch"
    /\ Len(imports) = 2
    /\ ~linker.handed


\* ====================================================== several Instances
\* How many times the module is instantiated in one behaviour.
MaxInstantiations == 3

notFleet == <<mainVars, importVars, sandboxVars, calc>>

\* The store a wrapper instantiates in: the client wrapper keeps the Arc of the
\* runtime's Vm it is created with, the substrate wrapper creates a Store and
\* an Executor of its own.
store_of(t, w) == IF t = "client" THEN 0 ELSE w

\* A module instance right after instantiation: the byte of the data segment
\* and the initial value of the global.
FreshModuleInstance(gen) == [gen |-> gen, mem |-> 1, glob |-> 1]

FleetState(st, ws) == [stores |-> st, wrappers |-> ws]

\* A faulty variant of instances_alive: the module instance of the call
\* before stays alive next to the new one.
instances_alive_leaking(before) == before + 1

\* The engine instances a store keeps alive once instantiate has run in it:
\* the wrapper's instance and memory fields are overwritten, which drops the
\* handles of the module instance before, and the store has one active module.
instances_alive(before) == 1

\* InstanceWrapper::instantiate: the store's active module becomes a new
\* module instance, which replaces the one before it, and the wrapper keeps
\* the handle of the new one.
instantiate(t, w, st, ws, gen) ==
    FleetState([st EXCEPT ![store_of(t, w)] = FreshModuleInstance(gen)],
               [ws EXCEPT ![w].held = gen, ![w].own = FreshModuleInstance(gen)])

\* The wrapper's handle is the active module of its store.
HandleValid(t, w, st, ws) == st[store_of(t, w)].gen = ws[w].held

\* A write of the wrapper through its instance and memory handles. A handle
\* of a module instance the store has replaced dangles: the write lands in
\* the module that took its place (hit) or is lost.
write_through(t, w, st, ws, mem, glob, hit) ==
    LET written == [gen |-> ws[w].held, mem |-> mem, glob |-> glob]
    IN  FleetState(
            IF HandleValid(t, w, st, ws)
            THEN [st EXCEPT ![store_of(t, w)] = written]
            ELSE IF hit
            THEN [st EXCEPT ![store_of(t, w)].mem = mem, ![store_of(t, w)].glob = glob]
            ELSE st,
            [ws EXCEPT ![w].own = written])

FleetInit ==
    /\ tree \in Trees
    /\ MainIdle
    /\ ImportsIdle
    /\ SandboxIdle
    /\ CalcIdle
    /\ stores = [s \in StoreIds |-> NoModuleInstance]
    /\ wrappers = [w \in WrapperIds |-> NoWrapper]
    /\ fleet \in [fast : BOOLEAN, instantiations : {0}, alive : {[s \in StoreIds |-> 0]}]

Becomes(next) ==
    /\ stores' = next.stores
    /\ wrappers' = next.wrappers

\* WasmEdgeRuntime::new_instance for one more Instance of the runtime: with
\* fast instance reuse the module is instantiated at once.
fleet_new_instance(w) ==
    /\ ~wrappers[w].created
    /\ IF fleet.fast
       THEN /\ fleet.instantiations < MaxInstantiations
            /\ Becomes(instantiate(tree, w, stores,
                                   [wrappers EXCEPT ![w].created = TRUE],
                                   fleet.instantiations + 1))
            /\ fleet' = [fleet EXCEPT !.instantiations = @ + 1,
                                      !.alive[store_of(tree, w)] = instances_alive(@)]
       ELSE /\ wrappers' = [wrappers EXCEPT ![w].created = TRUE]
            /\ UNCHANGED <<stores, fleet>>
    /\ UNCHANGED notFleet

\* WasmEdgeInstance::call up to the guest: FastInstanceReuse writes the
\* snapshots back through the handles of the wrapper, RecreateInstance
\* instantiates; perform_call then sets the host state.
fleet_call_start(w, hit) ==
    /\ wrappers[w].created
    /\ ~wrappers[w].host_state
    /\ IF fleet.fast
       THEN /\ Becomes(write_through(tree, w, stores,
                                     [wrappers EXCEPT ![w].host_state = TRUE],
                                     1, 1, hit))
            /\ UNCHANGED fleet
       ELSE /\ fleet.instantiations < MaxInstantiations
            /\ Becomes(instantiate(tree, w, stores,
                                   [wrappers EXCEPT ![w].host_state = TRUE],
                                   fleet.instantiations + 1))
            /\ fleet' = [fleet EXCEPT !.instantiations = @ + 1,
                                      !.alive[store_of(tree, w)] = instances_alive(@)]
    /\ UNCHANGED notFleet

\* The guest of a call writes its memory and its global.
fleet_guest_writes(w, hit) ==
    /\ wrappers[w].host_state
    /\ wrappers[w].own.mem # 2
    /\ Becomes(write_through(tree, w, stores, wrappers, 2, 2, hit))
    /\ UNCHANGED <<fleet, notFleet>>

\* The call returns: the host state is taken back, FastInstanceReuse
\* decommits the memory.
fleet_call_end(w, hit) ==
    /\ wrappers[w].host_state
    /\ IF fleet.fast
       THEN Becomes(write_through(tree, w, stores,
                                  [wrappers EXCEPT ![w].host_state = FALSE],
                                  0, wrappers[w].own.glob, hit))
       ELSE /\ wrappers' = [wrappers EXCEPT ![w].host_state = FALSE]
            /\ UNCHANGED stores
    /\ UNCHANGED <<fleet, notFleet>>

FleetNext ==
    \/ \E w \in WrapperIds : fleet_new_instance(w)
    \/ \E w \in WrapperIds, hit \in BOOLEAN : fleet_call_start(w, hit)
    \/ \E w \in WrapperIds, hit \in BOOLEAN : fleet_guest_writes(w, hit)
    \/ \E w \in WrapperIds, hit \in BOOLEAN : fleet_call_end(w, hit)

FleetSpec == FleetInit /\ [][FleetNext]_vars

\* C16: each Instance of a runtime that holds a module instance finds, in the
\* active module of its store, the memory and the global its own operations
\* left there, whatever the other Instances did in between.
C16_InstancesIndependent ==
    \A w \in WrapperIds :
        wrappers[w].held # 0 => stores[store_of(tree, w)] = wrappers[w].own


\* ================================================================ sandbox

notSandbox == <<mainVars, importVars, fleetVars, calc>>

\* sp_sandbox::env status codes, as the i32 the guest reads.
ERR_OK == 0
ERR_MODULE == -1
ERR_EXECUTION == -2
ERR_OUT_OF_BOUNDS == -3

Found(slot) == [ok |-> TRUE, bytes |-> slot.bytes]
NotFound == [ok |-> FALSE, bytes |-> <<>>]

\* sandbox::Store::memory / instance / dispatch_thunk: an error for an id
\* that was never handed out and for one that was torn down.
store_lookup(slots, id) ==
    IF id < Len(slots) /\ slots[id + 1].live THEN Found(slots[id + 1]) ELSE NotFound

\* sandbox::Store::memory_teardown / instance_teardown.
store_teardown(slots, id) == [slots EXCEPT ![id + 1] = TornDown]

\* UnregisteredInstance::register: the new slot's index is the id.
store_register(store) ==
    [store EXCEPT !.instances = Append(@, LiveMemory(<<>>))]

\* sandbox::Memory::read and write_from, bounds-checked copies.
sandboxed_read(bytes, offset, len) == read_memory_into(bytes, offset, len)
sandboxed_write_from(bytes, offset, data) == write_memory_from(bytes, offset, data)

\* A faulty variant of util::read_memory: the bytes are taken at address 0.
read_memory_at_zero(mem, source_addr, size) ==
    IF checked_range(source_addr, size, Len(mem))
    THEN read_memory_into(mem, 0, size)
    ELSE [ok |-> FALSE, bytes |-> <<>>]

\* util::read_memory: [ok, bytes].
read_memory(mem, source_addr, size) ==
    IF checked_range(source_addr, size, Len(mem))
    THEN read_memory_into(mem, source_addr, size)
    ELSE [ok |-> FALSE, bytes |-> <<>>]

\* The length memory_get reads from the sandboxed memory.
memory_get_len(buf_len, offset) == buf_len + offset

\* The outcome of a sandbox host call, with the state it started from.
\* The same, for a host call that ran (ran) or did not run nested guest code.
ReturnedAfter(ran, op, outcome, code, id, offset, ptr, len, input) ==
    /\ sb.calls < MaxSandboxCalls
    /\ sb' = [op |-> op, outcome |-> outcome, code |-> code, id |-> id,
              offset |-> offset, ptr |-> ptr, len |-> len, input |-> input,
              outer_before |-> outer, store_before |-> sandbox_store,
              calls |-> sb.calls + 1, ran |-> ran,
              issued |-> sb.issued \cup
                  (IF op = "instance_new" /\ outcome = "id" THEN {code} ELSE {}),
              torn |-> sb.torn \cup
                  (IF op = "instance_teardown" /\ outcome = "unit" THEN {id} ELSE {})]

Returned(op, outcome, code, id, offset, ptr, len, input) ==
    ReturnedAfter(FALSE, op, outcome, code, id, offset, ptr, len, input)

SandboxInit ==
    /\ tree = "substrate"
    /\ abi = "int"
    /\ hasTable \in BOOLEAN
    /\ CallPathIdle
    /\ ImportsIdle
    /\ FleetIdle
    /\ CalcIdle
    /\ sandbox_store = SandboxStoreNew
    /\ outer = [i \in 1..OuterSize |-> i]
    /\ sb = NoSandboxCall

\* HostContext::memory_new
memory_new(initial, maximum) ==
    /\ Len(sandbox_store.memories) < MaxSandboxObjects
    /\ IF maximum < initial
       THEN /\ Returned("memory_new", "error", 0, 0, 0, 0, 0, "maximum below initial")
            /\ UNCHANGED sandbox_store
       ELSE /\ Returned("memory_new", "id", Len(sandbox_store.memories), 0, 0, 0, 0, "")
            /\ sandbox_store' = store_new_memory(sandbox_store, initial)
    /\ UNCHANGED <<outer, notSandbox>>

\* HostContext::memory_get
memory_get(memory_id, offset, buf_ptr, buf_len) ==
    LET sandboxed_memory == store_lookup(sandbox_store.memories, memory_id)
        len == memory_get_len(buf_len, offset)
        buffer == sandboxed_read(sandboxed_memory.bytes, offset, len)
        written == write_memory_from(outer, buf_ptr, buffer.bytes)
        done(outcome, code) ==
            Returned("memory_get", outcome, code, memory_id, offset, buf_ptr, buf_len, "")
    IN  /\ IF ~sandboxed_memory.ok
           THEN done("error", 0) /\ UNCHANGED outer
           ELSE IF ~buffer.ok
           THEN done("code", ERR_OUT_OF_BOUNDS) /\ UNCHANGED outer
           ELSE IF ~written.ok
           THEN done("code", ERR_OUT_OF_BOUNDS) /\ UNCHANGED outer
           ELSE done("code", ERR_OK) /\ outer' = written.mem
        /\ UNCHANGED <<sandbox_store, notSandbox>>

\* HostContext::memory_set
memory_set(memory_id, offset, val_ptr, val_len) ==
    LET sandboxed_memory == store_lookup(sandbox_store.memories, memory_id)
        buffer == read_memory(outer, val_ptr, val_len)
        written == sandboxed_write_from(sandboxed_memory.bytes, offset, buffer.bytes)
        done(outcome, code) ==
            Returned("memory_set", outcome, code, memory_id, offset, val_ptr, val_len, "")
    IN  /\ IF ~sandboxed_memory.ok
           THEN done("error", 0) /\ UNCHANGED sandbox_store
           ELSE IF ~buffer.ok
           THEN done("code", ERR_OUT_OF_BOUNDS) /\ UNCHANGED sandbox_store
           ELSE IF ~written.ok
           THEN done("code", ERR_OUT_OF_BOUNDS) /\ UNCHANGED sandbox_store
           ELSE /\ done("code", ERR_OK)
                /\ sandbox_store' =
                     [sandbox_store EXCEPT !.memories[memory_id + 1] = LiveMemory(written.mem)]
        /\ UNCHANGED <<outer, notSandbox>>

\* HostContext::memory_teardown
memory_teardown(memory_id) ==
    /\ IF store_lookup(sandbox_store.memories, memory_id).ok
       THEN /\ Returned("memory_teardown", "unit", 0, memory_id, 0, 0, 0, "")
            /\ sandbox_store' =
                 [sandbox_store EXCEPT !.memories = store_teardown(@, memory_id)]
       ELSE /\ Returned("memory_teardown", "error", 0, memory_id, 0, 0, 0, "")
            /\ UNCHANGED sandbox_store
    /\ UNCHANGED <<outer, notSandbox>>

\* A faulty variant of instance_teardown: the instance stays in the store.
instance_teardown_keeps(instance_id) ==
    /\ IF store_lookup(sandbox_store.instances, instance_id).ok
       THEN Returned("instance_teardown", "unit", 0, instance_id, 0, 0, 0, "")
       ELSE Returned("instance_teardown", "error", 0, instance_id, 0, 0, 0, "")
    /\ UNCHANGED <<sandbox_store, outer, notSandbox>>

\* HostContext::instance_teardown
instance_teardown(instance_id) ==
    /\ IF store_lookup(sandbox_store.instances, instance_id).ok
       THEN /\ Returned("instance_teardown", "unit", 0, instance_id, 0, 0, 0, "")
            /\ sandbox_store' =
                 [sandbox_store EXCEPT !.instances = store_teardown(@, instance_id)]
       ELSE /\ Returned("instance_teardown", "error", 0, instance_id, 0, 0, 0, "")
            /\ UNCHANGED sandbox_store
    /\ UNCHANGED <<outer, notSandbox>>

\* The nested modules handed to instance_new and what sandbox::Store::
\* instantiate makes of each.
NestedModules == {"valid", "start traps", "invalid", "panics"}

\* The environment definitions handed to instance_new and whether
\* GuestEnvironment::decode accepts each.
EnvDefs == {"valid", "corrupt"}

decode_guest_environment(raw_env_def) == raw_env_def = "valid"

store_instantiate(wasm) ==
    CASE wasm = "valid" -> "Ok"
      [] wasm = "start traps" -> "StartTrapped"
      [] wasm = "invalid" -> "ModuleDecoding"
      [] wasm = "panics" -> "unwind"

\* A faulty variant of the thunk lookup: a null entry passes.
lookup_dispatch_thunk_unchecked(t, an_abi, has_table, dispatch_thunk_id) ==
    has_table /\ dispatch_thunk_id < TableSize

\* instance_new's lookup of the dispatch thunk: get_table(..).unwrap(),
\* get_data(..).unwrap() and func_ref().unwrap() all have to pass.
lookup_dispatch_thunk(t, an_abi, has_table, dispatch_thunk_id) ==
    /\ has_table
    /\ dispatch_thunk_id < TableSize
    /\ TableSlot(an_abi, dispatch_thunk_id).tag = "Some"

\* A faulty variant of the code of instance_new: a trapped start is taken
\* for a success.
instance_idx_or_start_trapped(instantiation, store) ==
    CASE instantiation \in {"Ok", "StartTrapped"} -> Len(store.instances)
      [] OTHER -> ERR_MODULE

\* The id or the code instance_new returns for the instantiation of instantiate.
instance_idx_or_err_code(instantiation, store) ==
    CASE instantiation = "Ok" -> Len(store.instances)
      [] instantiation = "StartTrapped" -> ERR_EXECUTION
      [] OTHER -> ERR_MODULE

\* HostContext::instance_new
instance_new(dispatch_thunk_id, wasm, raw_env_def) ==
    LET instantiation == store_instantiate(wasm)
        code == instance_idx_or_err_code(instantiation, sandbox_store)
        done(ran, outcome, c) ==
            ReturnedAfter(ran, "instance_new", outcome, c, dispatch_thunk_id, 0, 0, 0,
                          IF decode_guest_environment(raw_env_def) THEN wasm ELSE "corrupt env")
    IN  /\ Len(sandbox_store.instances) < MaxSandboxObjects
        /\ IF ~lookup_dispatch_thunk(tree, abi, hasTable, dispatch_thunk_id)
           THEN done(FALSE, "panic", 0) /\ UNCHANGED sandbox_store
           ELSE IF ~decode_guest_environment(raw_env_def)
           THEN done(FALSE, "code", ERR_MODULE) /\ UNCHANGED sandbox_store
           ELSE IF instantiation = "unwind"
           THEN done(TRUE, "panic", 0) /\ UNCHANGED sandbox_store
           ELSE IF code >= 0
           THEN done(TRUE, "id", code) /\ sandbox_store' = store_register(sandbox_store)
           ELSE done(instantiation = "StartTrapped", "code", code) /\ UNCHANGED sandbox_store
        /\ UNCHANGED <<outer, notSandbox>>

\* What the export of a nested instance does when invoked.
Exports == {"returns nothing", "returns a value", "fails"}

\* ReturnValue::Value(val).encode(): the variant of ReturnValue, the variant
\* of Value and the value.
encode_return_value(val) == <<1, 1, val>>

\* A faulty variant of the length check of invoke: every buffer passes.
return_value_always_fits(val, return_val_len) == TRUE

\* invoke's check of the encoded value against the guest's buffer.
return_value_fits(val, return_val_len) == ~(Len(val) > return_val_len)

\* HostContext::invoke
invoke(instance_id, export_name, args, return_val, return_val_len) ==
    LET val == encode_return_value(7)
        written == write_memory_from(outer, return_val, val)
        done(ran, outcome, code) ==
            ReturnedAfter(ran, "invoke", outcome, code, instance_id, 0, return_val,
                          return_val_len, IF args = "corrupt" THEN args ELSE export_name)
    IN  /\ IF args = "corrupt"
           THEN done(FALSE, "error", 0) /\ UNCHANGED outer
           ELSE IF ~store_lookup(sandbox_store.instances, instance_id).ok
           THEN done(FALSE, "error", 0) /\ UNCHANGED outer
           ELSE IF export_name = "fails"
           THEN done(TRUE, "code", ERR_EXECUTION) /\ UNCHANGED outer
           ELSE IF export_name = "returns nothing"
           THEN done(TRUE, "code", ERR_OK) /\ UNCHANGED outer
           ELSE IF ~return_value_fits(val, return_val_len)
           THEN done(TRUE, "error", 0) /\ UNCHANGED outer
           ELSE IF ~written.ok
           THEN done(TRUE, "error", 0) /\ UNCHANGED outer
           ELSE done(TRUE, "code", ERR_OK) /\ outer' = written.mem
        /\ UNCHANGED <<sandbox_store, notSandbox>>

SandboxIds == 0..MaxSandboxObjects
Offsets == {0, 1, SandboxPageSize}
OuterPtrs == {0, OuterSize - 1}
CopyLens == {0, 1, 2}

SandboxNext ==
    \/ \E maximum \in {0, 1} : memory_new(1, maximum)
    \/ \E id \in SandboxIds, offset \in Offsets, ptr \in OuterPtrs, len \in CopyLens :
           memory_get(id, offset, ptr, len)
    \/ \E id \in SandboxIds, offset \in Offsets, ptr \in OuterPtrs, len \in CopyLens :
           memory_set(id, offset, ptr, len)
    \/ \E id \in SandboxIds : memory_teardown(id)
    \/ \E id \in SandboxIds : instance_teardown(id)
    \/ \E thunk \in {0, 1, TableSize}, wasm \in NestedModules, env \in EnvDefs :
           (env = "valid" \/ wasm = "valid") /\ instance_new(thunk, wasm, env)
    \/ \E id \in SandboxIds, export \in Exports, args \in {"valid", "corrupt"},
          ptr \in OuterPtrs, len \in {0, 3} :
           (args = "valid" \/ export = "fails") /\ invoke(id, export, args, ptr, len)

SandboxSpec == SandboxInit /\ [][SandboxNext]_vars


\* ------------------------------------------------------ sandbox properties
\* The id named a live slot when the call started.
LiveIn(slots, id) == id < Len(slots) /\ slots[id + 1].live

InstancesBefore == sb.store_before.instances
MemoriesBefore == sb.store_before.memories

\* C17: instance_new, when it returns, returns the id of the instance it has
\* just registered if the nested module instantiated, ERR_EXECUTION if its
\* start function trapped, and ERR_MODULE for any other instantiation failure
\* and for an environment definition that does not decode; the store gets a
\* new instance in the first case only.
C17_InstanceNewCodes ==
    (sb.op = "instance_new")
    => /\ sb.outcome = "id"
              => /\ sb.input = "valid"
                 /\ sb.code = Len(InstancesBefore)
                 /\ Len(sandbox_store.instances) = Len(InstancesBefore) + 1
                 /\ LiveIn(sandbox_store.instances, sb.code)
                 /\ sandbox_store.memories = MemoriesBefore
       /\ sb.outcome # "id" => sandbox_store = sb.store_before
       /\ sb.outcome # "panic"
              => /\ sb.input = "valid" => sb.outcome = "id"
                 /\ sb.input = "start traps"
                        => sb.outcome = "code" /\ sb.code = ERR_EXECUTION
                 /\ sb.input \in {"invalid", "corrupt env"}
                        => sb.outcome = "code" /\ sb.code = ERR_MODULE

\* A nested module whose start function trapped: ERR_EXECUTION, nothing
\* registered.
C17_Witness ==
    /\ sb.op = "instance_new"
    /\ sb.input = "start traps"
    /\ sb.code = ERR_EXECUTION
    /\ sandbox_store.instances = <<>>

\* What makes each sandbox operation fail the host call instead of returning.
FailsHostCall ==
    CASE sb.op \in {"memory_get", "memory_set", "memory_teardown"}
             -> ~LiveIn(MemoriesBefore, sb.id)
      [] sb.op = "instance_teardown" -> ~LiveIn(InstancesBefore, sb.id)
      [] sb.op = "memory_new" -> sb.input = "maximum below initial"
      [] sb.op = "invoke"
             -> \/ sb.input = "corrupt"
                \/ ~LiveIn(InstancesBefore, sb.id)
                \/ /\ sb.input = "returns a value"
                   /\ \/ sb.len < Len(encode_return_value(0))
                      \/ sb.ptr + Len(encode_return_value(0)) > Len(sb.outer_before)
      [] sb.op = "instance_new"
             -> \/ ~hasTable
                \/ sb.id \notin 1..(TableSize - 1)
                \/ sb.input = "panics"
      [] OTHER -> FALSE

C19_MemoryGetCopiesRange ==
    (sb.op = "memory_get" /\ LiveIn(MemoriesBefore, sb.id))
    => LET src == MemoriesBefore[sb.id + 1].bytes
           in_bounds == /\ sb.offset + sb.len <= Len(src)
                        /\ sb.ptr + sb.len <= Len(sb.outer_before)
       IN  /\ sb.outcome = "code"
           /\ sb.code = ERR_OUT_OF_BOUNDS <=> ~in_bounds
           /\ sb.code # ERR_OUT_OF_BOUNDS => sb.code = ERR_OK
           /\ \A i \in 1..Len(outer) :
                  outer[i] = IF in_bounds /\ i - 1 >= sb.ptr /\ i - 1 < sb.ptr + sb.len
                             THEN src[sb.offset + i - sb.ptr]
                             ELSE sb.outer_before[i]

\* C20: memory_set on a live memory returns ERR_OUT_OF_BOUNDS and leaves the
\* sandboxed memory as it was when [val_ptr, val_ptr + val_len) is outside the
\* outer memory or [offset, offset + val_len) outside the sandboxed memory;
\* otherwise it returns ERR_OK and the sandboxed memory holds the val_len
\* outer bytes at offset and is unchanged everywhere else.
C20_MemorySetCopiesRange ==
    (sb.op = "memory_set" /\ LiveIn(MemoriesBefore, sb.id))
    => LET before == MemoriesBefore[sb.id + 1].bytes
           after == sandbox_store.memories[sb.id + 1].bytes
           in_bounds == /\ sb.ptr + sb.len <= Len(sb.outer_before)
                        /\ sb.offset + sb.len <= Len(before)
       IN  /\ sb.outcome = "code"
           /\ sb.code = IF in_bounds THEN ERR_OK ELSE ERR_OUT_OF_BOUNDS
           /\ outer = sb.outer_before
           /\ Len(after) = Len(before)
           /\ \A i \in 1..Len(after) :
                  after[i] = IF in_bounds /\ i - 1 >= sb.offset /\ i - 1 < sb.offset + sb.len
                             THEN sb.outer_before[sb.ptr + i - sb.offset]
                             ELSE before[i]

\* The last byte of the outer memory was copied into the sandboxed memory.
C20_Witness ==
    /\ sb.op = "memory_set"
    /\ sb.code = ERR_OK
    /\ sb.outcome = "code"
    /\ sb.ptr = OuterSize - 1
    /\ sb.len = 1
    /\ sandbox_store.memories[sb.id + 1].bytes[sb.offset + 1] = outer[OuterSize]


\* The bytes invoke writes for the value the nested export returned.
ReturnedBytes == encode_return_value(7)

\* C21: invoke on a live instance returns ERR_OK and leaves the outer memory
\* as it was when the export returns no value; when it returns a value the
\* encoded value is written at return_val and ERR_OK returned only if it is
\* not longer than return_val_len (and the range is inside the outer memory),
\* otherwise invoke fails and the outer memory is as it was; a failed nested
\* execution gives ERR_EXECUTION and writes nothing.
C21_InvokeReturnBuffer ==
    (sb.op = "invoke" /\ sb.input # "corrupt" /\ LiveIn(InstancesBefore, sb.id))
    => /\ sb.input = "returns nothing"
              => sb.outcome = "code" /\ sb.code = ERR_OK /\ outer = sb.outer_before
       /\ sb.input = "fails"
              => sb.outcome = "code" /\ sb.code = ERR_EXECUTION /\ outer = sb.outer_before
       /\ sb.input = "returns a value"
              => IF /\ Len(ReturnedBytes) <= sb.len
                    /\ sb.ptr + Len(ReturnedBytes) <= Len(sb.outer_before)
                 THEN /\ sb.outcome = "code" /\ sb.code = ERR_OK
                      /\ \A i \in 1..Len(outer) :
                             outer[i] = IF i - 1 >= sb.ptr /\ i - 1 < sb.ptr + Len(ReturnedBytes)
                                        THEN ReturnedBytes[i - sb.ptr]
                                        ELSE sb.outer_before[i]
                 ELSE sb.outcome = "error" /\ outer = sb.outer_before

\* A returned value was written into a buffer that is large enough.
C21_Witness ==
    /\ sb.op = "invoke"
    /\ sb.input = "returns a value"
    /\ sb.outcome = "code"
    /\ sb.code = ERR_OK
    /\ outer # sb.outer_before
    /\ outer[sb.ptr + 1] = ReturnedBytes[1]


\* The nested instances that are Instantiated: returned by a successful
\* instance_new of this call and not torn down since.
Instantiated == sb.issued \ sb.torn

\* C22: the ids the store answers for are exactly the ids a successful
\* instance_new returned and no instance_teardown has torn down; invoke runs
\* nested guest code for such an id only, and invoke and instance_teardown on
\* any other id fail without running nested guest code and leave the store
\* as it was.
C22_NestedInstanceLifecycle ==
    /\ \A id \in SandboxIds : LiveIn(sandbox_store.instances, id) <=> id \in Instantiated
    /\ sb.op = "invoke"
           => /\ sb.ran => sb.id \in Instantiated
              /\ sb.id \notin Instantiated => sb.outcome = "error" /\ ~sb.ran
              /\ sandbox_store = sb.store_before
    /\ sb.op = "instance_teardown"
           => /\ ~sb.ran
              /\ sb.outcome = "unit" <=> LiveIn(InstancesBefore, sb.id)
              /\ sb.outcome = "unit" => sb.id \in sb.torn
              /\ sb.outcome # "unit" => sb.outcome = "error" /\ sandbox_store = sb.store_before

\* An invoke on an instance that was torn down before.
C22_Witness ==
    /\ sb.op = "invoke"
    /\ sb.input = "returns nothing"
    /\ sb.id \in sb.issued
    /\ sb.id \in sb.torn
    /\ sb.outcome = "error"
    /\ ~sb.ran


\* C23: under both strategies the sandbox store of the HostState is empty
\* when the guest function of a call starts, also when the call before it on
\* the same Instance registered a sandboxed memory, and no store is left on
\* the Instance between calls.
C23_SandboxStoreEmptyAtDispatch ==
    /\ AtGuestStart => host_state.sandbox_store = SandboxStoreNew
    /\ pc = "idle" => host_state.sandbox_store = SandboxStoreNew

C23_Witness ==
    /\ AtGuestStart
    /\ call.after_sandbox
    /\ host_state.sandbox_store = SandboxStoreNew


\* C24: under RecreateInstance the engine instance of a call is discarded
\* once the call has returned: between calls the WasmEdgeInstance holds no
\* live engine instance.
C24_RecreatedInstanceDiscarded ==
    (strategy.tag = "RecreateInstance" /\ pc = "idle") => ~instance


\* One WasmEdgeInstance of the runtime exists, and it is w.
OnlyInstance(w) == \A v \in WrapperIds : wrappers[v].created <=> v = w

notCalc == <<mainVars, importVars, fleetVars, sandboxVars>>

\* The page counts a u32 holds (2^32), scaled, and how often the guest of one
\* call grows its memory.
PageCountModulus == 8
MaxGrows == 2

\* Bytes of a page of linear memory, for the byte lengths of this section.
WASM_PAGE_SIZE == 65536

\* Semantics::max_memory_size = None, and the page ceiling of an engine that
\* was given none.
NoLimit == -1
DefaultMaxMemoryPages == 65536

\* common_config: set_max_memory_pages((max_memory_size / 64 / 1024) as u32);
\* the cast keeps the low bits of the quotient.
max_memory_pages(max_memory_size) ==
    IF max_memory_size = NoLimit
    THEN DefaultMaxMemoryPages
    ELSE ((max_memory_size \div 64) \div 1024) % PageCountModulus

\* RuntimeBlob::add_extra_heap_pages_to_memory_section: the initial size of
\* the memory grows by extra_heap_pages.
add_extra_heap_pages_to_memory_section(initial, extra_heap_pages) ==
    initial + extra_heap_pages

\* The engine creates a memory of so many pages when its ceiling allows it.
memory_fits(pages, ceiling) == pages <= ceiling

\* memory.grow: the page count before, or -1 and no change when the ceiling
\* does not allow the growth.
memory_grow(pages, delta, ceiling) ==
    IF pages + delta <= ceiling
    THEN [ret |-> pages, pages |-> pages + delta]
    ELSE [ret |-> -1, pages |-> pages]

MaxMemorySizes ==
    {NoLimit} \cup
    {k * WASM_PAGE_SIZE + r : k \in {0, 1, 2, 3, PageCountModulus - 1, PageCountModulus},
                              r \in {0, WASM_PAGE_SIZE - 1}}

LimitsInit ==
    /\ tree \in Trees
    /\ MainIdle
    /\ ImportsIdle
    /\ FleetIdle
    /\ SandboxIdle
    /\ calc \in [max_memory_size : MaxMemorySizes, initial : 0..2,
                 extra_heap_pages : 0..1, phase : {"created"}, pages : {0},
                 before : {0}, delta : {0}, ret : {0}, grows : {0}]

\* create_runtime, new_instance and the instantiation of the module, with the
\* engine configured by common_config.
limits_instantiate ==
    /\ calc.phase = "created"
    /\ LET pages == add_extra_heap_pages_to_memory_section(calc.initial,
                                                           calc.extra_heap_pages)
       IN  calc' = IF memory_fits(pages, max_memory_pages(calc.max_memory_size))
                   THEN [calc EXCEPT !.phase = "guest", !.pages = pages]
                   ELSE [calc EXCEPT !.phase = "failed"]
    /\ UNCHANGED notCalc

\* The guest of the call runs memory.grow.
limits_memory_grow(delta) ==
    /\ calc.phase = "guest"
    /\ calc.grows < MaxGrows
    /\ LET grown == memory_grow(calc.pages, delta, max_memory_pages(calc.max_memory_size))
       IN  calc' = [calc EXCEPT !.pages = grown.pages, !.before = calc.pages,
                                !.delta = delta, !.ret = grown.ret, !.grows = @ + 1]
    /\ UNCHANGED notCalc

\* The guest function returns and the call with it.
limits_call_returns ==
    /\ calc.phase = "guest"
    /\ calc' = [calc EXCEPT !.phase = "returned"]
    /\ UNCHANGED notCalc

LimitsNext ==
    \/ limits_instantiate
    \/ \E delta \in 1..2 : limits_memory_grow(delta)
    \/ limits_call_returns

LimitsSpec == LimitsInit /\ [][LimitsNext]_vars

\* C26: with max_memory_size = M the page ceiling is floor(M / 65536): the
\* module is instantiated when initial + extra_heap_pages is at most the
\* ceiling, a memory.grow that reaches the ceiling exactly succeeds and one
\* that goes a page beyond it returns -1 and leaves the call running.
C26_MemoryCeiling ==
    calc.max_memory_size # NoLimit =>
        LET ceiling == calc.max_memory_size \div WASM_PAGE_SIZE
        IN  /\ (/\ calc.phase # "created"
                /\ calc.initial + calc.extra_heap_pages <= ceiling)
                   => calc.phase # "failed"
            /\ (calc.delta > 0 /\ calc.before + calc.delta = ceiling)
                   => calc.ret = calc.before /\ calc.pages = ceiling
            /\ (calc.delta > 0 /\ calc.before + calc.delta = ceiling + 1)
                   => /\ calc.ret = -1
                      /\ calc.pages = calc.before
                      /\ calc.phase \in {"guest", "returned"}

\* The claim for the sizes whose page count a u32 holds.
C26_CeilingBelowWidth ==
    calc.max_memory_size < PageCountModulus * WASM_PAGE_SIZE => C26_MemoryCeiling

C26_Witness ==
    /\ calc.phase = "returned"
    /\ calc.max_memory_size = 3 * WASM_PAGE_SIZE
    /\ calc.grows = 2
    /\ calc.pages = 3
    /\ calc.ret = -1



\* ============================================================ stack limit
\* The largest logical maximum of a configuration, in values on the stack.
MaxStackLimit == 3

\* Semantics::deterministic_stack_limit: None or Some(logical_max).
StackLimits == {NoLimit} \cup 2..MaxStackLimit

\* The frames the machine stack of a host holds. The machine limit is so high
\* that a deterministic limit triggers first.
NativeDepths == {MaxStackLimit, MaxStackLimit + 1}

\* A faulty variant of stack_depth_metering: the blob is never instrumented.
stack_depth_metering_skipped(deterministic_stack_limit) == NoLimit

\* prepare_blob_for_compilation: the blob is instrumented with the logical
\* maximum of the configuration when there is one.
stack_depth_metering(deterministic_stack_limit) ==
    IF deterministic_stack_limit # NoLimit THEN deterministic_stack_limit ELSE NoLimit

\* The instrumented call of a function with so many logical values: the
\* height of the stack after it, or the unreachable instruction.
metered_call(height, cost, logical_max) ==
    IF logical_max # NoLimit /\ height + cost > logical_max
    THEN [trap |-> TRUE, height |-> height]
    ELSE [trap |-> FALSE, height |-> height + cost]

NoRun ==
    [status |-> "ready", depth |-> 0, height |-> 0, exceeded |-> FALSE,
     outcome |-> NoResult]

StackInit ==
    /\ tree = "substrate"
    /\ abi = "int"
    /\ hasTable = FALSE
    /\ CallPathIdle
    /\ ImportsIdle
    /\ FleetIdle
    /\ SandboxIdle
    /\ calc \in [logical_max : StackLimits, cost : 1..2, want : 1..(MaxStackLimit + 2),
                 native : [1..2 -> NativeDepths], runs : {[r \in 1..2 |-> NoRun]}]

Run(r, next) == calc' = [calc EXCEPT !.runs[r] = next]

\* The call of run r enters the guest function.
stack_call_start(r) ==
    /\ calc.runs[r].status = "ready"
    /\ Run(r, [calc.runs[r] EXCEPT !.status = "running"])
    /\ UNCHANGED notCalc

\* The guest function of run r calls itself once more: the metering of the
\* blob traps, the machine stack of the host is exhausted, or the call is made.
stack_guest_calls(r) ==
    /\ calc.runs[r].status = "running"
    /\ calc.runs[r].depth < calc.want
    /\ LET run == calc.runs[r]
           metered == metered_call(run.height, calc.cost,
                                   stack_depth_metering(calc.logical_max))
           over == /\ calc.logical_max # NoLimit
                   /\ run.height + calc.cost > calc.logical_max
       IN  Run(r, IF metered.trap
                  THEN [run EXCEPT !.status = "returned", !.exceeded = over,
                                   !.outcome = trap_to_error(NoMessage, "unreachable")]
                  ELSE IF run.depth + 1 > calc.native[r]
                  THEN [run EXCEPT !.status = "returned", !.exceeded = over,
                                   !.outcome = trap_to_error(NoMessage, "stack overflow")]
                  ELSE [run EXCEPT !.depth = @ + 1, !.height = metered.height,
                                   !.exceeded = over])
    /\ UNCHANGED notCalc

\* The guest function of run r has recursed as deep as it wants and returns.
stack_guest_returns(r) ==
    /\ calc.runs[r].status = "running"
    /\ calc.runs[r].depth = calc.want
    /\ Run(r, [calc.runs[r] EXCEPT !.status = "returned", !.outcome = Ok(<<>>)])
    /\ UNCHANGED notCalc

StackNext ==
    \/ \E r \in 1..2 : stack_call_start(r)
    \/ \E r \in 1..2 : stack_guest_calls(r)
    \/ \E r \in 1..2 : stack_guest_returns(r)

StackSpec == StackInit /\ [][StackNext]_vars

\* C27: with a deterministic stack limit, a run whose guest exceeds the
\* logical maximum ends with AbortedDueToTrap "unreachable", and two runs of
\* the same call on hosts with different machine stacks end at the same depth
\* with the same result.
C27_DeterministicStackLimit ==
    calc.logical_max # NoLimit =>
        /\ \A r \in 1..2 :
               calc.runs[r].exceeded =>
                   /\ calc.runs[r].status = "returned"
                   /\ calc.runs[r].outcome = Err("AbortedDueToTrap", "unreachable", 0)
        /\ (\A r \in 1..2 : calc.runs[r].status = "returned") =>
               /\ calc.runs[1].depth = calc.runs[2].depth
               /\ calc.runs[1].outcome = calc.runs[2].outcome

C27_Witness ==
    /\ calc.logical_max # NoLimit
    /\ calc.native[1] # calc.native[2]
    /\ \A r \in 1..2 : calc.runs[r].exceeded /\ calc.runs[r].status = "returned"
    /\ calc.runs[1].depth = 1
    /\ calc.runs[1].outcome = Err("AbortedDueToTrap", "unreachable", 0)



\* ====================================================== value conversions
\* The bit patterns of a Value (2^32 and 2^64, scaled) and the significant
\* bits of an engine float (24 and 53, scaled).
BitsModulus == 16
MantissaBits == 3

RECURSIVE Pow2(_)
Pow2(n) == IF n = 0 THEN 1 ELSE 2 * Pow2(n - 1)

\* sp_wasm_interface::Value: the kind and the bits; a float is its bit pattern.
Value(ty, bits) == [ty |-> ty, bits |-> bits]

\* The engine's value: an integer, or a float that is a number of halves
\* (so that 0.5 and -1 are values) or not a number.
IntVal(ty, int) == [ty |-> ty, int |-> int, nan |-> FALSE, halves |-> 0]
FloatVal(ty, halves) == [ty |-> ty, int |-> 0, nan |-> FALSE, halves |-> halves]
NaNVal(ty) == [ty |-> ty, int |-> 0, nan |-> TRUE, halves |-> 0]

\* The distance of neighbouring floats around the integer n.
RECURSIVE Ulp(_, _)
Ulp(n, step) == IF n \div step < Pow2(MantissaBits) THEN step ELSE Ulp(n, 2 * step)

\* `bits as f32`: the float nearest to the integer, ties to the even mantissa.
int_as_float(n) ==
    LET step == Ulp(n, 1)
        lo == n - (n % step)
        rem == n % step
    IN  IF 2 * rem < step THEN lo
        ELSE IF 2 * rem > step THEN lo + step
        ELSE IF (lo \div step) % 2 = 0 THEN lo ELSE lo + step

\* `v as u32` of a float: not a number gives 0, the fraction is dropped and
\* the result saturates at the ends of the type.
float_as_uint(val) ==
    IF val.nan \/ val.halves < 0 THEN 0
    ELSE IF val.halves \div 2 >= BitsModulus THEN BitsModulus - 1
    ELSE val.halves \div 2

IsFloat(ty) == ty \in {"F32", "F64"}

\* util::from_wasmedge_val
from_wasmedge_val(val) ==
    IF IsFloat(val.ty) THEN Value(val.ty, float_as_uint(val)) ELSE Value(val.ty, val.int)

\* util::into_wasmedge_val
into_wasmedge_val(value) ==
    IF IsFloat(value.ty)
    THEN FloatVal(value.ty, 2 * int_as_float(value.bits))
    ELSE IntVal(value.ty, value.bits)

Values == {Value(ty, bits) : ty \in ValueTypes, bits \in 0..(BitsModulus - 1)}

EngineVals ==
    {IntVal(ty, int) : ty \in {"I32", "I64"}, int \in 0..(BitsModulus - 1)}
    \cup {FloatVal(ty, 2 * int_as_float(n)) : ty \in {"F32", "F64"},
                                              n \in 0..(BitsModulus - 1)}
    \cup {FloatVal(ty, halves) : ty \in {"F32", "F64"}, halves \in {-2, 1, 3}}
    \cup {NaNVal(ty) : ty \in {"F32", "F64"}}

ConvInit ==
    /\ tree \in Trees
    /\ MainIdle
    /\ ImportsIdle
    /\ FleetIdle
    /\ SandboxIdle
    /\ \/ \E value \in Values :
              calc = [from |-> "Value", steps |-> 0, value |-> value,
                      val |-> IntVal("I32", 0), value0 |-> value,
                      val0 |-> IntVal("I32", 0)]
       \/ \E val \in EngineVals :
              calc = [from |-> "Val", steps |-> 0, value |-> Value("I32", 0),
                      val |-> val, value0 |-> Value("I32", 0), val0 |-> val]

\* A Value is handed to the engine.
conv_into_wasmedge_val ==
    /\ \/ calc.from = "Value" /\ calc.steps = 0
       \/ calc.from = "Val" /\ calc.steps = 1
    /\ calc' = [calc EXCEPT !.val = into_wasmedge_val(calc.value), !.steps = @ + 1]
    /\ UNCHANGED notCalc

\* A value of the engine is handed to the host.
conv_from_wasmedge_val ==
    /\ \/ calc.from = "Val" /\ calc.steps = 0
       \/ calc.from = "Value" /\ calc.steps = 1
    /\ calc' = [calc EXCEPT !.value = from_wasmedge_val(calc.val), !.steps = @ + 1]
    /\ UNCHANGED notCalc

ConvNext == conv_into_wasmedge_val \/ conv_from_wasmedge_val

ConvSpec == ConvInit /\ [][ConvNext]_vars

\* C28: a Value converted to the engine's value and back is the same Value,
\* for all four kinds, and an engine value converted to a Value and back is
\* the same engine value.
C28_ValueRoundTrip ==
    calc.steps = 2 =>
        /\ calc.from = "Value" => calc.value = calc.value0
        /\ calc.from = "Val" => calc.val = calc.val0

\* The round trips of the two integer kinds.
C28_IntegerRoundTrip ==
    (calc.steps = 2 /\ ~IsFloat(calc.value0.ty) /\ ~IsFloat(calc.val0.ty))
        => C28_ValueRoundTrip



\* ========================================================== packed result
\* The linear memory the output of the call is read from.
ReturnMemory == [i \in 1..(MaxPages * WasmPageSize) |-> i]

\* The value the entry point returns for the output at ptr of len bytes: the
\* packed i64, or, for the entry points over floats that the client tree
\* accepts, the f64 nearest to it.
entry_point_returns(t, ptr, len) ==
    IF EntryResultTy(t) = I64
    THEN IntVal("I64", pack_ptr_and_len(ptr, len))
    ELSE FloatVal("F64", 2 * int_as_float(pack_ptr_and_len(ptr, len)))

\* The last line of InstanceWrapper::call: res[0].to_i64() as u64 in the
\* substrate tree, res[0].to_f64() as u64 in the client tree.
call_result_as_u64(t, val) ==
    IF t = "substrate" THEN val.int
    ELSE IF val.nan \/ val.halves < 0 THEN 0
    ELSE IF val.halves \div 2 >= HalfModulus * HalfModulus
    THEN HalfModulus * HalfModulus - 1
    ELSE val.halves \div 2

ReturnInit ==
    /\ tree \in Trees
    /\ MainIdle
    /\ ImportsIdle
    /\ FleetIdle
    /\ SandboxIdle
    /\ calc \in [phase : {"guest"}, ptr : 0..(HalfModulus - 1), len : 0..(HalfModulus - 1),
                 val : {IntVal("I64", 0)}, ret : {0},
                 unpacked : {[ptr |-> 0, len |-> 0]}, output : {NoResult}]

\* The guest entry point returns.
return_guest_returns ==
    /\ calc.phase = "guest"
    /\ calc' = [calc EXCEPT !.phase = "returned",
                            !.val = entry_point_returns(tree, calc.ptr, calc.len)]
    /\ UNCHANGED notCalc

\* InstanceWrapper::call returns the u64 and perform_call unpacks it.
return_unpack ==
    /\ calc.phase = "returned"
    /\ LET ret == call_result_as_u64(tree, calc.val)
       IN  calc' = [calc EXCEPT !.phase = "unpacked", !.ret = ret,
                                !.unpacked = unpack_ptr_and_len(ret)]
    /\ UNCHANGED notCalc

\* perform_call reads the output.
return_extract_output ==
    /\ calc.phase = "unpacked"
    /\ calc' = [calc EXCEPT !.phase = "read",
                            !.output = extract_output_data(ReturnMemory, calc.unpacked.ptr,
                                                           calc.unpacked.len)]
    /\ UNCHANGED notCalc

ReturnNext == return_guest_returns \/ return_unpack \/ return_extract_output

ReturnSpec == ReturnInit /\ [][ReturnNext]_vars

\* C29: for every pointer and length the entry point packs, the call unpacks
\* the same pointer and length and reads the output of that length at that
\* pointer.
C29_PackedResultUnaltered ==
    /\ calc.phase \in {"unpacked", "read"} =>
           /\ calc.ret = pack_ptr_and_len(calc.ptr, calc.len)
           /\ calc.unpacked = [ptr |-> calc.ptr, len |-> calc.len]
    /\ calc.phase = "read" =>
           calc.output = extract_output_data(ReturnMemory, calc.ptr, calc.len)

\* The claim for the substrate tree, whose entry points return an i64.
C29_SubstrateResultUnaltered == tree = "substrate" => C29_PackedResultUnaltered



\* =========================================================== byte lengths
\* The largest page count of a memory whose byte length is computed.
MaxLengthPages == 5

\* The places where the host computes the byte length of the linear memory.
LengthSites ==
    {"memory_slice", "memory_slice_mut", "allocate_memory", "deallocate_memory",
     "decommit"}

\* The byte length each place computes from memory.size(): size * 64 * 1024
\* in util::memory_slice and memory_slice_mut and everywhere in the substrate
\* tree, size * 64 * 1024 * 8 in allocate_memory, deallocate_memory and
\* decommit of the client tree.
memory_byte_len(t, site, size) ==
    IF t = "client" /\ site \in {"allocate_memory", "deallocate_memory", "decommit"}
    THEN size * 64 * 1024 * 8
    ELSE size * 64 * 1024

LengthsInit ==
    /\ tree \in Trees
    /\ MainIdle
    /\ ImportsIdle
    /\ FleetIdle
    /\ SandboxIdle
    /\ calc \in [phase : {"asked"}, site : LengthSites, size : 0..MaxLengthPages,
                 len : {0}]

\* The host computes the length of the memory at one of the places.
lengths_compute ==
    /\ calc.phase = "asked"
    /\ calc' = [calc EXCEPT !.phase = "computed",
                            !.len = memory_byte_len(tree, calc.site, calc.size)]
    /\ UNCHANGED notCalc

LengthsNext == lengths_compute

LengthsSpec == LengthsInit /\ [][LengthsNext]_vars

\* C30: every byte length of the linear memory the host computes is the page
\* count times 65536.
C30_ByteLengthIsPagesTimesPageSize ==
    calc.phase = "computed" => calc.len = calc.size * WASM_PAGE_SIZE

\* The claim for the substrate tree.
C30_SubstrateByteLength == tree = "substrate" => C30_ByteLengthIsPagesTimesPageSize



\* C31: under FastInstanceReuse the output of a successful call is the bytes
\* the guest left at the range it returned, read before the decommit that
\* has zeroed the memory by the time the call is over.
C31_OutputReadBeforeDecommit ==
    (Fast /\ pc = "idle" /\ call.invoked /\ result.tag = "Ok") =>
        /\ result.output = call.left
        /\ memory = Zeros(Len(memory))

C31_Witness ==
    /\ Fast
    /\ pc = "idle"
    /\ call.invoked
    /\ call.body = "any"
    /\ result.tag = "Ok"
    /\ \E i \in 1..Len(result.output) : result.output[i] # 0
    /\ memory = Zeros(Len(memory))



\* =========================================================== nested calls
\* How often the nested guest of one host call calls an import.
MaxCallbacks == 2

\* A faulty variant of thunk_args: state and func_idx change places.
thunk_args_swapped(invoke_args_ptr, invoke_args_len, state, func_idx) ==
    <<invoke_args_ptr, invoke_args_len, func_idx, state>>

\* SandboxContext::invoke: the vector the dispatch thunk is called with.
thunk_args(invoke_args_ptr, invoke_args_len, state, func_idx) ==
    <<invoke_args_ptr, invoke_args_len, state, func_idx>>

\* SandboxContext::invoke: Ok(result[0].to_i64()) or Err(err.to_string()).
thunk_result(returned, val) ==
    IF returned THEN [ok |-> TRUE, val |-> val] ELSE [ok |-> FALSE, val |-> 0]

\* A host function the dispatch thunk calls while the nested guest waits:
\* does it panic, and is the lock of the HostState poisoned after it.
\* read_memory_into and write_memory take no lock; allocate_memory and the
\* sandbox operations lock the HostState, which fails once the lock is
\* poisoned; a sandbox operation that finds the store taken panics with the
\* guard of the lock alive.
reentrant_host_call(f, store_present, poisoned) ==
    IF f = "memory" THEN [panics |-> FALSE, poisoned |-> poisoned]
    ELSE IF poisoned THEN [panics |-> TRUE, poisoned |-> TRUE]
    ELSE IF f = "sandbox" /\ ~store_present THEN [panics |-> TRUE, poisoned |-> TRUE]
    ELSE [panics |-> FALSE, poisoned |-> FALSE]

ReentrantHostFunctions == {"memory", "allocate", "sandbox"}

NoThunkCall == [ptr |-> 0, len |-> 0, state |-> 0, idx |-> 0]

NestedInit ==
    /\ tree = "substrate"
    /\ abi = "int"
    /\ hasTable = TRUE
    /\ CallPathIdle
    /\ ImportsIdle
    /\ FleetIdle
    /\ SandboxIdle
    /\ calc \in [op : {"invoke", "instance_new"}, phase : {"start"}, store : {TRUE},
                 before : 0..1, entries : {0}, poisoned : {FALSE}, guarded : {FALSE},
                 sent : {NoThunkCall}, received : {<<>>}, thunk : {"none"},
                 thunk_val : {0}, reply : {thunk_result(FALSE, 0)}, callbacks : {0},
                 called : {{}}, outcome : {"none"}, ended : {"no"}, code : {0}]

\* HostContext::invoke up to instance.invoke and HostContext::instance_new
\* up to store.instantiate: the instance, the dispatch thunk and the guest
\* environment are looked up under the lock, instance_new takes the store
\* out of the HostState, and no guard of the lock is alive when the nested
\* guest is entered.
nested_begin ==
    /\ calc.phase = "start"
    /\ calc' = [calc EXCEPT !.phase = "nested", !.entries = calc.before,
                            !.store = (calc.op = "invoke"), !.guarded = FALSE]
    /\ UNCHANGED notCalc

\* The nested guest calls an import: SandboxContext::invoke calls the
\* dispatch thunk.
nested_calls_import(invoke_args_ptr, invoke_args_len, state, func_idx) ==
    /\ calc.phase = "nested"
    /\ calc.callbacks < MaxCallbacks
    /\ calc' = [calc EXCEPT !.phase = "thunk", !.callbacks = @ + 1, !.thunk = "running",
                            !.sent = [ptr |-> invoke_args_ptr, len |-> invoke_args_len,
                                      state |-> state, idx |-> func_idx],
                            !.received = thunk_args(invoke_args_ptr, invoke_args_len,
                                                    state, func_idx)]
    /\ UNCHANGED notCalc

\* The dispatch thunk calls a host function. A panic of the host function is
\* caught by function_static and traps the thunk.
thunk_host_call(f) ==
    /\ calc.phase = "thunk"
    /\ f \notin calc.called
    /\ LET r == reentrant_host_call(f, calc.store, calc.poisoned)
       IN  calc' = IF r.panics
                   THEN [calc EXCEPT !.phase = "after", !.called = @ \cup {f},
                                     !.poisoned = r.poisoned, !.thunk = "trapped",
                                     !.reply = thunk_result(FALSE, 0),
                                     !.outcome = "trap"]
                   ELSE [calc EXCEPT !.called = @ \cup {f}, !.poisoned = r.poisoned]
    /\ UNCHANGED notCalc

\* The dispatch thunk returns its result to the nested guest.
thunk_returns(val) ==
    /\ calc.phase = "thunk"
    /\ calc' = [calc EXCEPT !.phase = "nested", !.thunk = "returned", !.thunk_val = val,
                            !.reply = thunk_result(TRUE, val)]
    /\ UNCHANGED notCalc

\* The dispatch thunk traps: the nested guest gets an error and traps.
thunk_traps ==
    /\ calc.phase = "thunk"
    /\ calc' = [calc EXCEPT !.phase = "after", !.thunk = "trapped",
                            !.reply = thunk_result(FALSE, 0), !.outcome = "trap"]
    /\ UNCHANGED notCalc

\* The nested guest is done: it returned, it trapped, or the sandbox backend
\* panicked.
nested_finishes(outcome) ==
    /\ calc.phase = "nested"
    /\ calc' = [calc EXCEPT !.phase = "after", !.outcome = outcome]
    /\ UNCHANGED notCalc

\* instance_new after catch_unwind: the store is put back under the lock,
\* which panics when the lock is poisoned.
put_store_back(poisoned) == [panics |-> poisoned, store |-> ~poisoned]

\* The rest of HostContext::instance_new and of HostContext::invoke.
nested_end ==
    /\ calc.phase = "after"
    /\ LET back == put_store_back(calc.poisoned)
           aborted == [calc EXCEPT !.phase = "ended", !.ended = "panic"]
           code(c) == [calc EXCEPT !.phase = "ended", !.ended = "code", !.code = c]
       IN  calc' =
             IF calc.op = "invoke"
             THEN IF calc.outcome = "unwind" THEN aborted
                  ELSE IF calc.outcome = "ok" THEN code(ERR_OK)
                  ELSE code(ERR_EXECUTION)
             ELSE IF back.panics THEN [aborted EXCEPT !.store = back.store]
             ELSE IF calc.outcome = "unwind" THEN [aborted EXCEPT !.store = back.store]
             ELSE IF calc.outcome = "ok"
             THEN [code(calc.entries) EXCEPT !.store = back.store, !.entries = @ + 1]
             ELSE [code(ERR_EXECUTION) EXCEPT !.store = back.store]
    /\ UNCHANGED notCalc

NestedNext ==
    \/ nested_begin
    \/ \E ptr \in {1, 5}, idx \in {4, 6} : nested_calls_import(ptr, 2, 3, idx)
    \/ \E f \in ReentrantHostFunctions : thunk_host_call(f)
    \/ \E val \in {7, 8} : thunk_returns(val)
    \/ thunk_traps
    \/ \E outcome \in {"ok", "trap", "unwind"} : nested_finishes(outcome)
    \/ nested_end

NestedSpec == NestedInit /\ [][NestedNext]_vars

\* C32: the dispatch thunk is called with (args_ptr, args_len, state,
\* func_index) in this order, the sandbox gets the thunk's result, and a trap
\* of the thunk reaches the sandbox as an error: the host call still ends
\* with a status code.
C32_ThunkCalledWithFourArguments ==
    /\ calc.thunk # "none" =>
           calc.received = <<calc.sent.ptr, calc.sent.len, calc.sent.state, calc.sent.idx>>
    /\ calc.thunk = "returned" => calc.reply = [ok |-> TRUE, val |-> calc.thunk_val]
    /\ calc.thunk = "trapped" =>
           /\ calc.reply.ok = FALSE
           /\ calc.outcome = "trap"
           /\ (calc.phase = "ended" /\ ~calc.poisoned) =>
                  calc.ended = "code" /\ calc.code = ERR_EXECUTION

C32_Witness ==
    /\ calc.thunk = "trapped"
    /\ calc.callbacks = 2
    /\ calc.thunk_val = 7
    /\ calc.sent.idx = 6
    /\ calc.phase = "ended"
    /\ calc.code = ERR_EXECUTION


\* C33: a nested invoke or instance_new whose nested guest calls back into
\* host functions (memory access, allocation, further sandbox operations)
\* completes with a status code unless the sandbox backend itself aborted,
\* and no guard of the HostState lock is alive while nested code runs.
C33_NestedCallCompletes ==
    /\ calc.phase \in {"nested", "thunk"} => ~calc.guarded
    /\ (calc.phase = "ended" /\ calc.outcome # "unwind") => calc.ended = "code"

\* What does hold: a nested invoke, which leaves the store in place,
\* completes whatever host functions its nested guest reaches.
C33_NestedInvokeCompletes ==
    (calc.op = "invoke" /\ calc.phase = "ended" /\ calc.outcome # "unwind") =>
        calc.ended = "code" /\ ~calc.poisoned

\* C38: instance_new keeps the store out of the HostState exactly while the
\* nested instantiation runs, and when instance_new is over, by return or by
\* a re-raised abort, the HostState holds the store again with everything
\* that was registered before.
C38_StorePutBack ==
    calc.op = "instance_new" =>
        /\ calc.phase \in {"nested", "thunk", "after"} => ~calc.store
        /\ calc.phase = "ended" => calc.store /\ calc.entries >= calc.before

\* What does hold: the store is back whenever no host function panicked
\* with the lock held.
C38_StorePutBackUnlessPoisoned ==
    (calc.op = "instance_new" /\ calc.phase = "ended" /\ ~calc.poisoned) =>
        calc.store /\ calc.entries >= calc.before


\* C34: the mutable-globals set and the data-segments snapshot of a runtime
\* are those of the blob that was compiled into its Module, the blob after
\* prepare_blob_for_compilation.
C34_SnapshotOfCompiledBlob ==
    (runtime.tag = "Some" /\ runtime.fast) =>
        /\ runtime.snapshot_data.tag = "Some"
        /\ runtime.snapshot_data.mutable_globals =
               ExposedMutableGlobalsSet_collect(runtime.module)
        /\ runtime.snapshot_data.data_segments_snapshot =
               DataSegmentsSnapshot_take(runtime.module)

\* What does hold: do_create_runtime of the substrate tree snapshots the
\* prepared blob.
C34_SubstrateSnapshotOfCompiledBlob == tree = "substrate" => C34_SnapshotOfCompiledBlob


\* C35: once a FastInstanceReuse call that reached the dispatch has
\* returned, with a result or with an execution error, every byte of the
\* linear memory reads zero and the memory is not smaller than it was before
\* the call; the result or error is the one the dispatch produced; decommit
\* of a memory of zero pages changes nothing.
C35_DecommittedAfterFastCall ==
    /\ decommit(<<>>) = <<>>
    /\ (SubstrateFast /\ pc = "idle" /\ call.invoked) =>
           /\ memory = Zeros(Len(memory))
           /\ Len(memory) >= call.size_before
           /\ call.trap # NoMessage => result = trap_to_error(call.registered, call.trap)
           /\ result.tag = "Ok" => result.output = call.left

\* A call that grew the memory and then trapped has returned.
C35_Witness ==
    /\ SubstrateFast
    /\ pc = "idle"
    /\ call.invoked
    /\ call.trap # NoMessage
    /\ result.tag = "Err"
    /\ Len(memory) > call.size_before


\* =========================================================== memory access
MaxAccessLen == 3
AccessOps == {"read_memory_into", "read_memory", "write_memory_from", "extract_output_data"}
AccessMemory == [i \in 1 .. MaxAccessLen |-> i]

\* The addresses and lengths of an access: small ones, and the largest of
\* the width, with which address + length overflows.
AccessAddresses == 0 .. MaxAccessLen \cup {UsizeModulus - 2, UsizeModulus - 1}
AccessLengths == 0 .. MaxAccessLen \cup {UsizeModulus - 2, UsizeModulus - 1}

AccessInit ==
    /\ tree = "substrate"
    /\ abi = "int"
    /\ hasTable = TRUE
    /\ CallPathIdle
    /\ ImportsIdle
    /\ FleetIdle
    /\ SandboxIdle
    /\ \E size \in 0 .. MaxAccessLen, op \in AccessOps,
          address \in AccessAddresses, len \in AccessLengths :
          calc = [op |-> op, address |-> address, len |-> len, done |-> FALSE,
                  mem0 |-> SubSeq(AccessMemory, 1, size),
                  mem |-> SubSeq(AccessMemory, 1, size),
                  dest0 |-> [i \in 1 .. len |-> 9], dest |-> [i \in 1 .. len |-> 9],
                  data |-> [i \in 1 .. len |-> 7],
                  ok |-> FALSE, message |-> ""]

\* read_memory_into(memory, address, dest): dest is written only once the
\* range has been checked.
access_read_memory_into ==
    /\ calc.op = "read_memory_into"
    /\ ~calc.done
    /\ LET r == read_memory_into(memory_slice(calc.mem), calc.address, Len(calc.dest))
       IN  calc' = [calc EXCEPT !.done = TRUE, !.ok = r.ok,
                                !.dest = IF r.ok THEN r.bytes ELSE @,
                                !.message = IF r.ok THEN "" ELSE "memory read is out of bounds"]
    /\ UNCHANGED notCalc

\* read_memory(memory, source_addr, size): the buffer is returned on success.
access_read_memory ==
    /\ calc.op = "read_memory"
    /\ ~calc.done
    /\ LET r == read_memory(memory_slice(calc.mem), calc.address, calc.len)
       IN  calc' = [calc EXCEPT !.done = TRUE, !.ok = r.ok,
                                !.dest = IF r.ok THEN r.bytes ELSE @,
                                !.message = IF r.ok THEN "" ELSE "memory read is out of bounds"]
    /\ UNCHANGED notCalc

\* write_memory_from(memory, address, data)
access_write_memory_from ==
    /\ calc.op = "write_memory_from"
    /\ ~calc.done
    /\ LET r == write_memory_from(memory_slice(calc.mem), calc.address, calc.data)
       IN  calc' = [calc EXCEPT !.done = TRUE, !.ok = r.ok, !.mem = r.mem,
                                !.message = IF r.ok THEN "" ELSE "memory write is out of bounds"]
    /\ UNCHANGED notCalc

\* extract_output_data(instance_wrapper, output_ptr, output_len) with the
\* range the entry point returned.
access_extract_output_data ==
    /\ calc.op = "extract_output_data"
    /\ ~calc.done
    /\ LET r == extract_output_data(calc.mem, calc.address, calc.len)
       IN  calc' = [calc EXCEPT !.done = TRUE, !.ok = (r.tag = "Ok"),
                                !.dest = IF r.tag = "Ok" THEN r.output ELSE @,
                                !.message = r.message]
    /\ UNCHANGED notCalc

AccessNext ==
    \/ access_read_memory_into
    \/ access_read_memory
    \/ access_write_memory_from
    \/ access_extract_output_data

AccessSpec == AccessInit /\ [][AccessNext]_vars

\* address + length does not overflow the width and does not pass the length
\* of the memory.
AccessFits ==
    /\ calc.address + calc.len < UsizeModulus
    /\ calc.address + calc.len <= Len(calc.mem0)

\* C36: a memory access succeeds exactly when address + length does not
\* overflow and does not pass the length of the memory; a successful read
\* yields the bytes of the range and leaves the memory alone, a successful
\* write replaces the range and nothing else; a failed access is an
\* out-of-bounds error that leaves memory and destination as they were, and
\* so an out-of-range result of the entry point makes the call fail.
C36_AccessChecked ==
    calc.done =>
        /\ calc.ok <=> AccessFits
        /\ Len(calc.mem) = Len(calc.mem0)
        /\ (calc.ok /\ calc.op # "write_memory_from") =>
               /\ calc.mem = calc.mem0
               /\ calc.dest = SubSeq(calc.mem0, calc.address + 1, calc.address + calc.len)
        /\ (calc.ok /\ calc.op = "write_memory_from") =>
               /\ calc.dest = calc.dest0
               /\ \A i \in 1 .. Len(calc.mem) :
                      calc.mem[i] = IF i > calc.address /\ i <= calc.address + calc.len
                                    THEN calc.data[i - calc.address]
                                    ELSE calc.mem0[i]
        /\ ~calc.ok =>
               /\ calc.mem = calc.mem0
               /\ calc.dest = calc.dest0
               /\ calc.message = IF calc.op = "write_memory_from"
                                 THEN "memory write is out of bounds"
                                 ELSE "memory read is out of bounds"

\* An access whose address + length overflows has been refused.
C36_Witness ==
    /\ calc.done
    /\ ~calc.ok
    /\ calc.address + calc.len >= UsizeModulus
    /\ Len(calc.mem0) = MaxAccessLen


\* C37: when the allocation or the copy of the input fails, the call returns
\* that error, the guest function is not invoked and no HostState is
\* installed; the guest function is only ever entered with the input in its
\* memory.
C37_FailedInjectionStopsCall ==
    /\ call.inject_err # NoResult =>
           /\ pc = "idle"
           /\ result = call.inject_err
           /\ result.tag = "Err"
           /\ ~call.invoked
           /\ ~call.injected
           /\ host_state = NoHostState
    /\ AtGuestStart =>
           LET r == read_memory_into(memory, call.data_ptr, Len(call.data))
           IN  r.ok /\ r.bytes = call.data

\* A call whose input does not fit into the heap has returned the error of
\* the allocator.
C37_Witness ==
    /\ pc = "idle"
    /\ call.inject_err # NoResult
    /\ result.error = "Allocator"
    /\ host_state = NoHostState


\* C39: a fatal message is reported only by the call in which it was
\* registered: while a call runs, the message of its HostState is the one
\* registered in this call, none at its start; a call that ends with
\* AbortedDueToPanic trapped and carries the message registered in it; once
\* a call is over, successful or not, its HostState is gone and the message
\* with it.
C39_PanicMessageDiesWithCall ==
    /\ pc # "idle" => host_state.panic_message = call.registered
    /\ AtGuestStart => host_state.panic_message = NoMessage
    /\ pc = "idle" => host_state = NoHostState
    /\ (pc = "idle" /\ result.error = "AbortedDueToPanic") =>
           /\ call.registered # NoMessage
           /\ call.trap # NoMessage
           /\ result.message = call.registered

\* A call in which a message was registered has returned a result.
C39_Witness ==
    /\ pc = "idle"
    /\ call.registered # NoMessage
    /\ result.tag = "Ok"
    /\ host_state = NoHostState


\* ==================================================== stack-depth counter
\* Calls made on one instance.
MaxCounterCalls == 3

\* The mutable globals of a blob that declares one itself, and the global the
\* stack-depth metering adds.
DeclaredGlobals == {"declared_global"}
StackHeightGlobal == "stack_height"

\* RuntimeBlob::inject_stack_depth_metering: the blob gets one more mutable
\* global, the height of the logical stack, starting at zero.
inject_stack_depth_metering(blob) ==
    [blob EXCEPT !.globals = @ \cup {StackHeightGlobal}]

\* RuntimeBlob::expose_mutable_globals: every mutable global the blob has at
\* this moment is exported.
expose_mutable_globals(blob) == [blob EXCEPT !.exported = blob.globals]

\* A faulty variant of prepare_blob_passes: the globals are exposed before
\* the metering is injected.
prepare_blob_exposed_first(blob, deterministic_stack_limit, fast_instance_reuse) ==
    LET exposed == IF fast_instance_reuse THEN expose_mutable_globals(blob) ELSE blob
    IN  IF deterministic_stack_limit # NoLimit
        THEN inject_stack_depth_metering(exposed)
        ELSE exposed

\* prepare_blob_for_compilation, its passes over the globals of the blob: the
\* metering is injected first, the mutable globals are exposed after it.
prepare_blob_passes(blob, deterministic_stack_limit, fast_instance_reuse) ==
    LET metered == IF deterministic_stack_limit # NoLimit
                   THEN inject_stack_depth_metering(blob)
                   ELSE blob
    IN  IF fast_instance_reuse THEN expose_mutable_globals(metered) ELSE metered

\* The globals of a new instance of a blob.
InstanceGlobalsOf(blob) ==
    [g \in blob.globals |-> IF g = StackHeightGlobal THEN 0 ELSE 1]

CounterInit ==
    /\ tree = "substrate"
    /\ abi = "int"
    /\ hasTable = FALSE
    /\ CallPathIdle
    /\ ImportsIdle
    /\ FleetIdle
    /\ SandboxIdle
    /\ \E logical_max \in 2..MaxStackLimit, cost \in 1..2 :
          calc = [logical_max |-> logical_max, cost |-> cost, status |-> "none",
                  live |-> [g \in {} |-> 0], snapshot |-> [g \in {} |-> 0],
                  want |-> 0, depth |-> 0, calls |-> 0, trapped |-> 0, last |-> NoResult]

\* do_create_runtime and new_instance under fast_instance_reuse with a
\* deterministic stack limit: the globals snapshot is taken from the new
\* instance over the exported mutable globals of the prepared blob.
counter_new_instance ==
    /\ calc.status = "none"
    /\ LET blob == prepare_blob_passes([globals |-> DeclaredGlobals, exported |-> {}],
                                       calc.logical_max, TRUE)
           fresh == InstanceGlobalsOf(blob)
       IN  calc' = [calc EXCEPT !.status = "idle", !.live = fresh,
                                !.snapshot = GlobalsSnapshot_take(blob.exported, fresh)]
    /\ UNCHANGED notCalc

\* WasmEdgeInstance::call: the globals snapshot is applied, then the guest
\* function is entered; it wants to recurse so many times.
counter_call_start(want) ==
    /\ calc.status = "idle"
    /\ calc.calls < MaxCounterCalls
    /\ calc' = [calc EXCEPT !.status = "running", !.calls = @ + 1, !.want = want,
                            !.depth = 0,
                            !.live = GlobalsSnapshot_apply(calc.snapshot, calc.live)]
    /\ UNCHANGED notCalc

\* The guest function calls itself once more: the metering adds the cost of
\* the callee to the counter, or traps and leaves the counter as it is.
counter_guest_calls ==
    /\ calc.status = "running"
    /\ calc.depth < calc.want
    /\ LET metered == metered_call(calc.live[StackHeightGlobal], calc.cost,
                                   stack_depth_metering(calc.logical_max))
       IN  calc' = IF metered.trap
                   THEN [calc EXCEPT !.status = "idle", !.trapped = @ + 1,
                                     !.last = trap_to_error(NoMessage, "unreachable")]
                   ELSE [calc EXCEPT !.depth = @ + 1,
                                     !.live[StackHeightGlobal] = metered.height,
                                     !.live["declared_global"] = 2]
    /\ UNCHANGED notCalc

\* The guest function returns from all its frames: the metering takes the
\* cost of each off the counter.
counter_guest_returns ==
    /\ calc.status = "running"
    /\ calc.depth = calc.want
    /\ calc' = [calc EXCEPT !.status = "idle", !.last = Ok(<<>>), !.depth = 0,
                            !.live[StackHeightGlobal] = @ - calc.depth * calc.cost]
    /\ UNCHANGED notCalc

CounterNext ==
    \/ counter_new_instance
    \/ \E want \in 1..(MaxStackLimit + 1) : counter_call_start(want)
    \/ counter_guest_calls
    \/ counter_guest_returns

CounterSpec == CounterInit /\ [][CounterNext]_vars

\* C40: under FastInstanceReuse with a deterministic stack limit the counter
\* of the metering is one of the restored globals: when the guest function
\* of a call starts the counter is zero, whatever the call before did, so
\* that the counter of a running call is the height of its own frames and a
\* call traps on the limit exactly when its own frames exceed it.
C40_StackCounterRestored ==
    /\ calc.status # "none" => StackHeightGlobal \in DOMAIN calc.snapshot
    /\ calc.status = "running" =>
           /\ calc.live[StackHeightGlobal] = calc.depth * calc.cost
           /\ calc.depth * calc.cost <= calc.logical_max
    /\ (calc.status = "idle" /\ calc.last.tag = "Err") =>
           (calc.depth + 1) * calc.cost > calc.logical_max

\* A call has started after a call that trapped on the limit and left the
\* counter above zero.
C40_Witness ==
    /\ calc.status = "running"
    /\ calc.depth = 0
    /\ calc.trapped >= 1
    /\ calc.last.tag = "Err"
    /\ calc.live[StackHeightGlobal] = 0

====
